---- MODULE Spec2Model ----
(***************************************************************************)
(* QFS: the content-addressed store (documents, content, FTS index,        *)
(* collections), the incremental indexer that drives it, and the stdio     *)
(* loop of the MCP server.                                                  *)
(*                                                                         *)
(* The store is one SQLite/libsql connection.  Each public method of       *)
(* Store issues its statements one after the other, in autocommit mode     *)
(* (the source opens no transaction), so a method is modelled by an        *)
(* operator that threads the database through its statements and takes     *)
(* the number of the statement that fails (0: none fails).                 *)
(***************************************************************************)
EXTENDS Integers, Sequences, FiniteSets, TLC

(***************************************************************************)
(* Bounds of the model.                                                    *)
(***************************************************************************)
MaxClock == 4

MaxLines == 3

MaxContextCalls == 2

(***************************************************************************)
(* Input domains.                                                          *)
(***************************************************************************)
NULL == "NULL"

\* Option
None == [some |-> FALSE]

Some(v) == [some |-> TRUE, v |-> v]

Colls == {"docs", "notes"}

Paths == {"a.txt", "b.txt"}

Root == "/r"

PatternLists == {<<"**/*.txt">>}

Bytes == {"x", "yy"}

NoFile == "<absent>"

Unreadable == "<unreadable>"

FileStates == Bytes \cup {NoFile, Unreadable}

Timestamps == 1..MaxClock

(***************************************************************************)
(* indexer::calculate_hash: hex SHA-256 of the bytes.  The digests of the  *)
(* byte strings of the model are tabulated (they are the real digests).    *)
(***************************************************************************)
calculate_hash(bytes) ==
    CASE bytes = "x"  -> "2d711642b726b04401627ca9fbac32f5c8530fb1903cc4db02258717921a4881"
      [] bytes = "yy" -> "ef90d9c1ec76b1edc9edfaf2c0c05359c10ccc49ae8ecf7b7fd25ce9c02e86a4"

(* Arguments of direct calls of Store::insert_content: the store takes    *)
(* the hash from its caller and does not recompute it.                     *)
ContentInputs ==
    { [hash |-> calculate_hash("x"),  data |-> "x",  content_type |-> "text/plain"],
      [hash |-> calculate_hash("x"),  data |-> "yy", content_type |-> "text/markdown"],
      [hash |-> calculate_hash("yy"), data |-> "yy", content_type |-> "text/plain"] }

(* Arguments of direct calls of Store::upsert_document. *)
DocInputs ==
    { [title |-> NULL, hash |-> calculate_hash("x"),  file_type |-> ".txt", body |-> "x"],
      [title |-> "T",  hash |-> calculate_hash("yy"), file_type |-> ".md",  body |-> "z"] }

VARIABLES
    clock,      \* Utc::now(); every call that writes takes one unit of time
    db,         \* the tables of the store
    files,      \* the file tree under the collection root
    run,        \* Indexer::index_collection_with_progress in progress
    prev,       \* per collection: the last completed run, while nothing changed since
    last,       \* the last completed call and its result
    stdin,      \* McpServer::run: what the reads of stdin will return, in order
    stdout,     \* McpServer::run: the lines written to stdout
    mcp,        \* McpServer::run: the position of the loop
    call        \* one call of a function that changes nothing: inputs, result

vars == <<clock, db, files, run, prev, last, stdin, stdout, mcp, call>>

(***************************************************************************)
(* Store: the schema (store/schema.rs SCHEMA_SQL).                         *)
(***************************************************************************)
SCHEMA_VERSION == 4

\* i64::to_string, for the versions of the model
i64_to_string(n) ==
    CASE n = 1 -> "1" [] n = 2 -> "2" [] n = 3 -> "3" [] n = 4 -> "4" [] n = 5 -> "5"

\* CAST(value AS INTEGER) of a TEXT value: text that starts with no digit casts to 0
cast_integer(text) ==
    CASE text = "1" -> 1 [] text = "2" -> 2 [] text = "3" -> 3 [] text = "4" -> 4
      [] text = "5" -> 5 [] OTHER -> 0

\* index_state of a database file in which SCHEMA_SQL never ran
NoTable == [exists |-> FALSE, rows |-> {}]

\* index_state with the rows given
TableOf(rows) == [exists |-> TRUE, rows |-> rows]

\* a new database file; a table that does not exist yet holds no row
NewFile ==
    [ collections     |-> {},
      content         |-> {},
      documents       |-> {},
      documents_fts   |-> {},
      path_contexts   |-> {},
      embeddings      |-> {},
      index_state     |-> NoTable,
      sqlite_sequence |-> 0 ]

\* SELECT CAST(value AS INTEGER) FROM index_state WHERE key = 'schema_version',
\* 0 when the query yields no row
stored_version(d) ==
    LET rows == {r \in d.index_state.rows : r.key = "schema_version"}
    IN  IF rows = {} THEN 0 ELSE cast_integer((CHOOSE r \in rows : TRUE).value)

\* migrate: UPDATE index_state SET value = ?1 WHERE key = 'schema_version'
migrate(d, from_version, fail) ==
    IF fail = 3 THEN [db |-> d, ok |-> FALSE] ELSE
    [db |-> [d EXCEPT !.index_state.rows =
                { IF r.key = "schema_version"
                  THEN [r EXCEPT !.value = i64_to_string(SCHEMA_VERSION)] ELSE r
                  : r \in @ }],
     ok |-> TRUE]

\* ensure_schema; `fail` is the number of the statement that fails, 0 for
\* none.  The statements are the query of sqlite_master, then execute_batch
\* and INSERT for a file without index_state, SELECT and UPDATE for one with
\* it.  No statement runs in a transaction: execute_batch that fails has
\* created none of the tables here, INSERT that fails leaves them created.
ensure_schema(d, fail) ==
    IF fail = 1 THEN [db |-> d, ok |-> FALSE] ELSE
    IF ~d.index_state.exists
    THEN IF fail = 2 THEN [db |-> d, ok |-> FALSE] ELSE
         LET d1 == [d EXCEPT !.index_state = TableOf({})] IN
         IF fail = 3 THEN [db |-> d1, ok |-> FALSE] ELSE
         [db |-> [d1 EXCEPT !.index_state.rows =
                    {[key |-> "schema_version", value |-> i64_to_string(SCHEMA_VERSION)]}],
          ok |-> TRUE]
    ELSE IF fail = 2 THEN [db |-> d, ok |-> FALSE] ELSE
         IF stored_version(d) < SCHEMA_VERSION
         THEN migrate(d, stored_version(d), fail)
         ELSE [db |-> d, ok |-> TRUE]

\* the store after Store::open of a new file
EmptyDb == ensure_schema(NewFile, 0).db

\* documents.hash REFERENCES content(hash), but Store::open issues no
\* PRAGMA foreign_keys = ON, and SQLite does not enforce foreign keys
\* without it
foreign_keys == FALSE

(***************************************************************************)
(* Store: collections.                                                     *)
(***************************************************************************)
add_collection(d, name, path, patterns, now) ==
    LET row == [name |-> name, path |-> path, patterns |-> patterns,
                created_at |-> now, updated_at |-> now]
    IN  [db |-> [d EXCEPT !.collections =
                     {r \in d.collections : r.name # name} \cup {row}],
         ok |-> TRUE]

get_collection(d, name) ==
    IF \E r \in d.collections : r.name = name
    THEN [ok |-> TRUE, row |-> CHOOSE r \in d.collections : r.name = name]
    ELSE [ok |-> FALSE]

\* remove_collection deleting only the active documents of the collection
remove_collection_active_only(d, name, fail) ==
    IF fail = 1 THEN [db |-> d, ok |-> FALSE] ELSE
    LET d1 == [d EXCEPT !.documents =
                  {r \in d.documents : ~(r.collection = name /\ r.active)}]
    IN  IF fail = 2 THEN [db |-> d1, ok |-> FALSE] ELSE
        [db |-> [d1 EXCEPT !.collections = {r \in d1.collections : r.name # name}],
         ok |-> TRUE]

remove_collection(d, name, fail) ==
    IF fail = 1 THEN [db |-> d, ok |-> FALSE] ELSE
    LET d1 == [d EXCEPT !.documents = {r \in d.documents : r.collection # name}]
    IN  IF fail = 2 THEN [db |-> d1, ok |-> FALSE] ELSE
        [db |-> [d1 EXCEPT !.collections = {r \in d1.collections : r.name # name}],
         ok |-> TRUE]

(***************************************************************************)
(* Store: content-addressable storage.                                     *)
(***************************************************************************)
content_exists(d, hash) == \E r \in d.content : r.hash = hash

\* insert_content written as INSERT OR REPLACE, without the existence check
insert_content_replace(d, hash, data, content_type, now, fail) ==
    IF fail \in {1, 2} THEN [db |-> d, ok |-> FALSE] ELSE
    [db |-> [d EXCEPT !.content = {r \in @ : r.hash # hash} \cup
                {[hash |-> hash, content |-> data, content_type |-> content_type,
                  size |-> Len(data), created_at |-> now]}],
     ok |-> TRUE]

insert_content(d, hash, data, content_type, now, fail) ==
    IF fail = 1 THEN [db |-> d, ok |-> FALSE] ELSE
    IF content_exists(d, hash) THEN [db |-> d, ok |-> TRUE] ELSE
    IF fail = 2 THEN [db |-> d, ok |-> FALSE] ELSE
    [db |-> [d EXCEPT !.content = @ \cup
                {[hash |-> hash, content |-> data, content_type |-> content_type,
                  size |-> Len(data), created_at |-> now]}],
     ok |-> TRUE]

(***************************************************************************)
(* Store: documents.                                                       *)
(***************************************************************************)
\* the upsert written as INSERT OR REPLACE: the conflicting row is deleted
\* and a new one inserted
upsert_row_replace(d, collection, path, title, hash, file_type, now) ==
    [d EXCEPT !.sqlite_sequence = @ + 1,
              !.documents =
                 {r \in @ : ~(r.collection = collection /\ r.path = path)} \cup
                 {[id |-> d.sqlite_sequence + 1, collection |-> collection,
                   path |-> path, title |-> title, hash |-> hash,
                   file_type |-> file_type, created_at |-> now,
                   modified_at |-> now, indexed_at |-> now, active |-> TRUE]}]

\* INSERT ... ON CONFLICT(collection, path) DO UPDATE SET ...
upsert_row(d, collection, path, title, hash, file_type, now) ==
    IF \E r \in d.documents : r.collection = collection /\ r.path = path
    THEN [d EXCEPT !.documents =
            { IF r.collection = collection /\ r.path = path
              THEN [r EXCEPT !.title = title, !.hash = hash, !.file_type = file_type,
                             !.modified_at = now, !.indexed_at = now, !.active = TRUE]
              ELSE r : r \in d.documents }]
    ELSE [d EXCEPT !.sqlite_sequence = @ + 1,
                   !.documents = @ \cup
                     {[id |-> d.sqlite_sequence + 1, collection |-> collection,
                       path |-> path, title |-> title, hash |-> hash,
                       file_type |-> file_type, created_at |-> now,
                       modified_at |-> now, indexed_at |-> now, active |-> TRUE]}]

\* DELETE FROM documents_fts WHERE rowid = ?1
fts_delete(d, id) ==
    [d EXCEPT !.documents_fts = {f \in d.documents_fts : f.rowid # id}]

upsert_document(d, collection, path, title, hash, file_type, body, now, fail) ==
    IF fail = 1 \/ (foreign_keys /\ ~content_exists(d, hash))
    THEN [db |-> d, ok |-> FALSE] ELSE
    LET d1 == upsert_row(d, collection, path, title, hash, file_type, now)
    IN  IF fail = 2 THEN [db |-> d1, ok |-> FALSE] ELSE
        IF ~ \E r \in d1.documents : r.collection = collection /\ r.path = path
        THEN [db |-> d1, ok |-> FALSE] ELSE
        LET id == (CHOOSE r \in d1.documents :
                       r.collection = collection /\ r.path = path).id
        IN  IF fail = 3 THEN [db |-> d1, ok |-> FALSE] ELSE
            LET d2 == fts_delete(d1, id)
            IN  IF fail = 4 \/ (\E f \in d2.documents_fts : f.rowid = id)
                THEN [db |-> d2, ok |-> FALSE] ELSE
                [db |-> [d2 EXCEPT !.documents_fts = @ \cup
                           {[rowid |-> id,
                             filepath |-> <<collection, "/", path>>,
                             title |-> IF title = NULL THEN "" ELSE title,
                             body |-> body]}],
                 ok |-> TRUE, id |-> id]

\* get_document selecting on active = 0
get_document_inactive(d, collection, path) ==
    LET hits == {r \in d.documents :
                    r.collection = collection /\ r.path = path /\ ~r.active}
    IN  IF hits # {} THEN [ok |-> TRUE, doc |-> CHOOSE r \in hits : TRUE]
        ELSE [ok |-> FALSE]

get_document(d, collection, path) ==
    LET hits == {r \in d.documents :
                    r.collection = collection /\ r.path = path /\ r.active}
    IN  IF hits # {} THEN [ok |-> TRUE, doc |-> CHOOSE r \in hits : TRUE]
        ELSE [ok |-> FALSE]

deactivate_document(d, collection, path, fail) ==
    LET got == IF fail = 1 THEN [ok |-> FALSE] ELSE get_document(d, collection, path)
    IN  IF got.ok /\ fail = 2 THEN [db |-> d, ok |-> FALSE] ELSE
        LET d1 == IF got.ok THEN fts_delete(d, got.doc.id) ELSE d
        IN  IF fail = 3 THEN [db |-> d1, ok |-> FALSE] ELSE
            [db |-> [d1 EXCEPT !.documents =
                       { IF r.collection = collection /\ r.path = path
                         THEN [r EXCEPT !.active = FALSE] ELSE r
                         : r \in d1.documents }],
             ok |-> TRUE]

(***************************************************************************)
(* Store: path contexts.  Paths and prefixes are sequences of characters.  *)
(***************************************************************************)
\* str::starts_with
starts_with(str, prefix) ==
    Len(prefix) <= Len(str) /\ SubSeq(str, 1, Len(prefix)) = prefix

\* str::trim_end_matches(char)
RECURSIVE trim_end_matches(_, _)
trim_end_matches(str, ch) ==
    IF str # <<>> /\ str[Len(str)] = ch
    THEN trim_end_matches(SubSeq(str, 1, Len(str) - 1), ch)
    ELSE str

\* the paths and prefixes are made to start with /
normalize_path(path) ==
    IF starts_with(path, <<"/">>) THEN path ELSE <<"/">> \o path

\* every arrangement of a set of rows in a sequence
Arrangements(rows) ==
    {order \in [1..Cardinality(rows) -> rows] : \A r \in rows : \E i \in DOMAIN order : order[i] = r}

\* UNIQUE(collection, path_prefix): SQLite holds two NULLs to be distinct, so
\* a row whose collection is NULL conflicts with no row
context_conflicts(d, collection, normalized) ==
    {r \in d.path_contexts :
        collection # NULL /\ r.collection = collection /\ r.path_prefix = normalized}

\* Store::set_context: INSERT ... ON CONFLICT(collection, path_prefix) DO UPDATE
set_context(d, collection, path_prefix, context, now) ==
    LET normalized == normalize_path(path_prefix)
        hit == context_conflicts(d, collection, normalized)
        ids == {r.id : r \in d.path_contexts}
        rowid == IF ids = {} THEN 1 ELSE 1 + CHOOSE i \in ids : \A j \in ids : j <= i
    IN  IF hit # {}
        THEN [db |-> [d EXCEPT !.path_contexts =
                        { IF r \in hit
                          THEN [r EXCEPT !.context = context, !.updated_at = now]
                          ELSE r : r \in d.path_contexts }],
              ok |-> TRUE]
        ELSE [db |-> [d EXCEPT !.path_contexts = @ \cup
                        {[id |-> rowid, collection |-> collection,
                          path_prefix |-> normalized, context |-> context,
                          created_at |-> now, updated_at |-> now]}],
              ok |-> TRUE]

\* Store::remove_context: DELETE ... WHERE collection IS ?1 AND path_prefix = ?2
remove_context(d, collection, path_prefix) ==
    LET normalized == normalize_path(path_prefix)
        gone == {r \in d.path_contexts :
                    r.collection = collection /\ r.path_prefix = normalized}
    IN  [db |-> [d EXCEPT !.path_contexts = @ \ gone], ok |-> TRUE, removed |-> gone # {}]

\* WHERE (collection = ?1 OR collection IS NULL)
context_rows(d, collection) ==
    {r \in d.path_contexts : r.collection = collection \/ r.collection = NULL}

\* ORDER BY CASE WHEN collection IS NOT NULL THEN 0 ELSE 1 END, LENGTH(path_prefix) DESC
specific_first(order) ==
    \A i, j \in DOMAIN order : i < j =>
        \/ order[i].collection # NULL /\ order[j].collection = NULL
        \/ /\ (order[i].collection = NULL) = (order[j].collection = NULL)
           /\ Len(order[i].path_prefix) >= Len(order[j].path_prefix)

\* ORDER BY CASE WHEN collection IS NULL THEN 0 ELSE 1 END, LENGTH(path_prefix) ASC
general_first(order) ==
    \A i, j \in DOMAIN order : i < j =>
        \/ order[i].collection = NULL /\ order[j].collection # NULL
        \/ /\ (order[i].collection = NULL) = (order[j].collection = NULL)
           /\ Len(order[i].path_prefix) <= Len(order[j].path_prefix)

\* find_context_for_path returning the last row that matches, not the first
find_context_last_match(d, collection, file_path, order) ==
    LET normalized == normalize_path(file_path)
        hits == {i \in DOMAIN order :
                    \/ starts_with(normalized, order[i].path_prefix)
                    \/ normalized = trim_end_matches(order[i].path_prefix, "/")}
    IN  IF hits = {} THEN None
        ELSE Some(order[CHOOSE i \in hits : \A j \in hits : j <= i].context)

\* Store::find_context_for_path over the rows in the order the query gave them
find_context_for_path(d, collection, file_path, order) ==
    LET normalized == normalize_path(file_path)
        hits == {i \in DOMAIN order :
                    \/ starts_with(normalized, order[i].path_prefix)
                    \/ normalized = trim_end_matches(order[i].path_prefix, "/")}
    IN  IF hits = {} THEN None
        ELSE Some(order[CHOOSE i \in hits : \A j \in hits : i <= j].context)

RECURSIVE contexts_of(_)
contexts_of(rows) ==
    IF rows = <<>> THEN <<>> ELSE <<rows[1].context>> \o contexts_of(Tail(rows))

\* get_all_contexts_for_path that keeps every row the query gave
get_all_contexts_unfiltered(d, collection, file_path, order) ==
    contexts_of(order)

\* Store::get_all_contexts_for_path over the rows in the order the query gave them
get_all_contexts_for_path(d, collection, file_path, order) ==
    LET normalized == normalize_path(file_path)
        keep(r) == starts_with(normalized, r.path_prefix) \/ r.path_prefix = <<"/">>
    IN  contexts_of(SelectSeq(order, keep))

(***************************************************************************)
(* Scanner and parser, as far as the indexer depends on them.              *)
(***************************************************************************)
\* glob::Pattern::matches_with on the relative path or the bare file name
GlobMatches(pattern, path) ==
    CASE pattern = "**/*.txt" -> path \in {"a.txt", "b.txt"}
      [] OTHER                -> FALSE

\* Scanner::scan: the regular files under the root that match a pattern
scan(fs, patterns) ==
    {p \in Paths : fs[p] # NoFile /\ \E i \in 1..Len(patterns) : GlobMatches(patterns[i], p)}

\* Path::file_stem
file_stem(path) ==
    CASE path = "a.txt" -> "a"
      [] path = "b.txt" -> "b"

\* Path::extension, with the dot index_file puts in front of it
file_type_of(path) ==
    CASE path \in {"a.txt", "b.txt"} -> ".txt"

\* parse_file on a text file without NUL bytes: parse_text
parse_file(path, bytes) ==
    [title |-> file_stem(path), body |-> bytes, mime_type |-> "text/plain"]

(***************************************************************************)
(* Indexer.                                                                *)
(***************************************************************************)
NoFault == <<"none", 0>>

IndexFaults ==
    {<<"content_exists", 1>>, <<"get_document", 1>>,
     <<"insert_content", 1>>, <<"insert_content", 2>>,
     <<"upsert_document", 1>>, <<"upsert_document", 2>>,
     <<"upsert_document", 3>>, <<"upsert_document", 4>>}

FailAt(fault, site) == IF fault[1] = site THEN fault[2] ELSE 0

\* Indexer::index_file: ok, whether the file was indexed (not skipped), the
\* database it leaves and whether it went on to the store's writing calls
index_file(d, fs, collection, relative_path, now, fault) ==
    LET bytes == fs[relative_path] IN
    IF bytes \notin Bytes
    THEN [db |-> d, ok |-> FALSE, indexed |-> FALSE, ticks |-> 0] ELSE
    LET hash == calculate_hash(bytes) IN
    IF FailAt(fault, "content_exists") = 1
    THEN [db |-> d, ok |-> FALSE, indexed |-> FALSE, ticks |-> 0] ELSE
    LET got == IF FailAt(fault, "get_document") = 1 THEN [ok |-> FALSE]
               ELSE get_document(d, collection, relative_path)
    IN
    IF content_exists(d, hash) /\ got.ok /\ got.doc.hash = hash
    THEN [db |-> d, ok |-> TRUE, indexed |-> FALSE, ticks |-> 0] ELSE
    LET parsed == parse_file(relative_path, bytes)
        ic == insert_content(d, hash, bytes, parsed.mime_type, now,
                             FailAt(fault, "insert_content"))
    IN
    IF ~ic.ok
    THEN [db |-> ic.db, ok |-> FALSE, indexed |-> FALSE, ticks |-> 1] ELSE
    LET up == upsert_document(ic.db, collection, relative_path, parsed.title, hash,
                              file_type_of(relative_path), parsed.body,
                              now, FailAt(fault, "upsert_document"))
    IN  [db |-> up.db, ok |-> up.ok, indexed |-> up.ok, ticks |-> 1]

ZeroStats ==
    [files_scanned |-> 0, files_indexed |-> 0, files_skipped |-> 0,
     files_removed |-> 0, errors |-> 0]

\* the body of the scan loop of index_collection_with_progress
count_file(stats, res) ==
    IF res.ok
    THEN IF res.indexed
         THEN [stats EXCEPT !.files_scanned = @ + 1, !.files_indexed = @ + 1]
         ELSE [stats EXCEPT !.files_scanned = @ + 1, !.files_skipped = @ + 1]
    ELSE [stats EXCEPT !.files_scanned = @ + 1, !.errors = @ + 1]

\* the scan loop leaving at the first file that fails
loop_step_abort(r, relative_path, res) ==
    [r EXCEPT !.todo = IF res.ok THEN @ \ {relative_path} ELSE {},
              !.seen_paths = @ \cup {relative_path},
              !.stats = count_file(@, res)]

\* one iteration of the scan loop: the file leaves the iterator, its path
\* joins seen_paths and its result is counted
loop_step(r, relative_path, res) ==
    [r EXCEPT !.todo = @ \ {relative_path},
              !.seen_paths = @ \cup {relative_path},
              !.stats = count_file(@, res)]

(***************************************************************************)
(* MCP: JSON values, JSON-RPC requests and responses (mcp/protocol.rs).    *)
(***************************************************************************)
JNull == [t |-> "null"]

JStr(x) == [t |-> "string", v |-> x]

JNum(n) == [t |-> "number", v |-> n]

JObj(members) == [t |-> "object", m |-> members]

\* text that is not JSON, and no text at all
Malformed == [t |-> "malformed"]

NoText == [t |-> "empty"]

\* a line of input: `spaces` blanks around the text `doc`
Line(spaces, doc) == [read |-> "line", spaces |-> spaces, doc |-> doc]

ReadError == [read |-> "error"]

RequestDocs ==
    { JObj("jsonrpc" :> JStr("2.0") @@ "id" :> JNum(1) @@ "method" :> JStr("ping")),
      JObj("jsonrpc" :> JStr("2.0") @@ "method" :> JStr("notifications/initialized")),
      JObj("jsonrpc" :> JStr("2.0") @@ "id" :> JNum(2) @@ "method" :> JStr("resources/list")),
      JObj("jsonrpc" :> JStr("2.0") @@ "id" :> JNum(3) @@ "method" :> JStr("tools/call")
           @@ "params" :> JObj("arguments" :> JObj(<<>>))) }

BadDocs ==
    { Malformed,
      JObj("jsonrpc" :> JStr("2.0") @@ "id" :> JNum(4)) }

ReadEvents ==
    {Line(0, d) : d \in RequestDocs \cup BadDocs}
      \cup {Line(0, NoText), Line(2, NoText), ReadError}

\* the check without the trim
is_empty_untrimmed(line) == line.doc = NoText /\ line.spaces = 0

\* str::trim followed by str::is_empty
trimmed_is_empty(line) == line.doc = NoText

\* serde_json::from_str::<JsonRpcRequest>: jsonrpc and method are required
\* strings, id and params are options (absent or null: None), other members
\* are ignored
from_str_request(doc) ==
    IF doc.t # "object" THEN [ok |-> FALSE] ELSE
    LET m == doc.m
        opt(k) == IF k \in DOMAIN m /\ m[k] # JNull THEN Some(m[k]) ELSE None
    IN  IF "jsonrpc" \notin DOMAIN m \/ m["jsonrpc"].t # "string" THEN [ok |-> FALSE] ELSE
        IF "method" \notin DOMAIN m \/ m["method"].t # "string" THEN [ok |-> FALSE] ELSE
        [ok |-> TRUE,
         request |-> [jsonrpc |-> m["jsonrpc"].v, id |-> opt("id"),
                      method |-> m["method"].v, params |-> opt("params")]]

JsonRpcError(code, message) == [code |-> code, message |-> message]

parse_error(message) == JsonRpcError(-32700, message)

method_not_found(method) == JsonRpcError(-32601, <<"Method not found: ", method>>)

invalid_params(message) == JsonRpcError(-32602, message)

\* JsonRpcResponse::success and JsonRpcResponse::error
success(id, result) ==
    [jsonrpc |-> "2.0", id |-> id, result |-> Some(result), error |-> None]

error(id, err) ==
    [jsonrpc |-> "2.0", id |-> id, result |-> None, error |-> Some(err)]

\* serde_json::to_string(&JsonRpcResponse): id, result and error carry
\* skip_serializing_if = "Option::is_none"
to_string(response) ==
    LET members == {"jsonrpc"}
                     \cup (IF response.id.some THEN {"id"} ELSE {})
                     \cup (IF response.result.some THEN {"result"} ELSE {})
                     \cup (IF response.error.some THEN {"error"} ELSE {})
    IN  JObj([k \in members |->
                CASE k = "jsonrpc" -> JStr(response.jsonrpc)
                  [] k = "id"      -> response.id.v
                  [] k = "result"  -> response.result.v
                  [] k = "error"   -> JObj("code" :> JNum(response.error.v.code)
                                           @@ "message" :> JStr(response.error.v.message))])

(***************************************************************************)
(* MCP: the server (mcp/server.rs).                                        *)
(***************************************************************************)
\* the tools of handle_tool_call
ToolNames ==
    {"qfs_search", "qfs_vsearch", "qfs_query", "qfs_get", "qfs_multi_get", "qfs_status"}

\* McpServer::handle_tools_call: params and the tool's name are required;
\* the tool's own result is left open
handle_tools_call(params) ==
    IF ~params.some
    THEN [ok |-> FALSE, err |-> invalid_params("Missing params")] ELSE
    IF \/ params.v.t # "object"
       \/ "name" \notin DOMAIN params.v.m
       \/ params.v.m["name"].t # "string"
    THEN [ok |-> FALSE, err |-> invalid_params("Missing tool name")] ELSE
    IF params.v.m["name"].v \notin ToolNames
    THEN [ok |-> FALSE, err |-> invalid_params(<<"Unknown tool: ", params.v.m["name"].v>>)]
    ELSE [ok |-> TRUE, value |-> JObj("content" :> JStr("..."))]

\* handle_request without the arm of notifications/initialized
handle_request_no_ack(request) ==
    LET result ==
          CASE request.method = "initialize" ->
                 [ok |-> TRUE, value |-> JObj("protocolVersion" :> JStr("2024-11-05"))]
            [] request.method = "tools/list" ->
                 [ok |-> TRUE, value |-> JObj("tools" :> JStr("..."))]
            [] request.method = "tools/call" -> handle_tools_call(request.params)
            [] request.method = "ping" -> [ok |-> TRUE, value |-> JObj(<<>>)]
            [] OTHER -> [ok |-> FALSE, err |-> method_not_found(request.method)]
    IN  IF result.ok THEN success(request.id, result.value)
        ELSE error(request.id, result.err)

\* McpServer::handle_request
handle_request(request) ==
    IF request.method = "notifications/initialized"
    THEN success(request.id, JObj(<<>>)) ELSE
    LET result ==
          CASE request.method = "initialize" ->
                 [ok |-> TRUE, value |-> JObj("protocolVersion" :> JStr("2024-11-05"))]
            [] request.method = "tools/list" ->
                 [ok |-> TRUE, value |-> JObj("tools" :> JStr("..."))]
            [] request.method = "tools/call" -> handle_tools_call(request.params)
            [] request.method = "ping" -> [ok |-> TRUE, value |-> JObj(<<>>)]
            [] OTHER -> [ok |-> FALSE, err |-> method_not_found(request.method)]
    IN  IF result.ok THEN success(request.id, result.value)
        ELSE error(request.id, result.err)

\* the response the loop builds for a line that is not empty
response_to(line) ==
    LET parsed == from_str_request(line.doc)
    IN  IF parsed.ok THEN handle_request(parsed.request)
        ELSE error(None, parse_error("Parse error: ..."))

(***************************************************************************)
(* The state machine of the store and the indexer.                         *)
(***************************************************************************)
NoPrev == [valid |-> FALSE, files_scanned |-> 0, errors |-> 0]

NoneChanged == [c \in Colls |-> NoPrev]

IdleRun ==
    [pc |-> "idle", name |-> NULL, scanned |-> {}, todo |-> {}, seen_paths |-> {},
     stats |-> ZeroStats, repeat |-> NoPrev]

Fresh ==
    /\ clock = 1
    /\ db = EmptyDb
    /\ run = IdleRun
    /\ prev = NoneChanged
    /\ last = [op |-> "none", ok |-> TRUE]

\* no call of a function under way
NoCall == [op |-> "none"]

\* the loop of McpServer::run before its first read
McpStart == [pc |-> "read", pos |-> 0, pending |-> None, stop |-> "none", result |-> "none"]

Init ==
    /\ Fresh
    /\ files = [p \in Paths |-> NoFile]
    /\ stdin = <<>>
    /\ stdout = <<>>
    /\ mcp = McpStart
    /\ call = NoCall

RowState(d, collection, path) ==
    IF \E r \in d.documents : r.collection = collection /\ r.path = path /\ r.active
    THEN "active"
    ELSE IF \E r \in d.documents : r.collection = collection /\ r.path = path
         THEN "inactive" ELSE "absent"

\* a file under the root is created, rewritten, made unreadable or deleted
WriteFile(path, state) ==
    /\ run.pc = "idle"
    /\ clock <= MaxClock
    /\ files[path] # state
    /\ files' = [files EXCEPT ![path] = state]
    /\ clock' = clock + 1
    /\ prev' = NoneChanged
    /\ last' = [op |-> "write_file", ok |-> TRUE]
    /\ UNCHANGED <<db, run, stdin, stdout, mcp, call>>

AddCollection(name, patterns) ==
    /\ run.pc = "idle"
    /\ clock <= MaxClock
    /\ db' = add_collection(db, name, Root, patterns, clock).db
    /\ clock' = clock + 1
    /\ prev' = NoneChanged
    /\ last' = [op |-> "add_collection", ok |-> TRUE, name |-> name]
    /\ UNCHANGED <<files, run, stdin, stdout, mcp, call>>

RemoveCollection(name) ==
    LET res == remove_collection(db, name, 0) IN
    /\ run.pc = "idle"
    /\ clock <= MaxClock
    /\ db' = res.db
    /\ clock' = clock + 1
    /\ prev' = NoneChanged
    /\ last' = [op |-> "remove_collection", ok |-> res.ok, name |-> name,
                had_row |-> get_collection(db, name).ok,
                had_docs |-> \E r \in db.documents : r.collection = name]
    /\ UNCHANGED <<files, run, stdin, stdout, mcp, call>>

InsertContent(in) ==
    LET res == insert_content(db, in.hash, in.data, in.content_type, clock, 0) IN
    /\ run.pc = "idle"
    /\ clock <= MaxClock
    /\ db' = res.db
    /\ clock' = clock + 1
    /\ prev' = NoneChanged
    /\ last' = [op |-> "insert_content", ok |-> res.ok, hash |-> in.hash,
                data |-> in.data, existed |-> content_exists(db, in.hash)]
    /\ UNCHANGED <<files, run, stdin, stdout, mcp, call>>

UpsertDocumentCall(collection, path, in, fail) ==
    LET res == upsert_document(db, collection, path, in.title, in.hash,
                               in.file_type, in.body, clock, fail) IN
    /\ fail # 0 => ~res.ok
    /\ clock <= MaxClock
    /\ db' = res.db
    /\ clock' = clock + 1
    /\ prev' = NoneChanged
    /\ last' = [op |-> "upsert_document", ok |-> res.ok, collection |-> collection,
                path |-> path, was |-> RowState(db, collection, path)]
    /\ UNCHANGED <<files, run, stdin, stdout, mcp, call>>

UpsertDocument(collection, path, in) ==
    /\ run.pc = "idle"
    /\ UpsertDocumentCall(collection, path, in, 0)

\* the call with its statement number `fail` failing
UpsertDocumentFails(collection, path, in, fail) ==
    /\ run.pc = "idle"
    /\ fail \in 1..4
    /\ UpsertDocumentCall(collection, path, in, fail)

DeactivateDocumentCall(collection, path, fail) ==
    LET res == deactivate_document(db, collection, path, fail) IN
    /\ fail \in {2, 3} => ~res.ok
    /\ clock <= MaxClock
    /\ db' = res.db
    /\ clock' = clock + 1
    /\ prev' = NoneChanged
    /\ last' = [op |-> "deactivate_document", ok |-> res.ok, collection |-> collection,
                path |-> path, was |-> RowState(db, collection, path)]
    /\ UNCHANGED <<files, run, stdin, stdout, mcp, call>>

DeactivateDocument(collection, path) ==
    /\ run.pc = "idle"
    /\ DeactivateDocumentCall(collection, path, 0)

\* the call with its statement number `fail` failing; the failure of the
\* first statement, get_document's query, is swallowed by `if let Ok(doc)`
DeactivateDocumentFails(collection, path, fail) ==
    /\ run.pc = "idle"
    /\ fail \in 1..3
    /\ DeactivateDocumentCall(collection, path, fail)

\* index_collection_with_progress up to the scan loop
IndexCollectionStart(name) ==
    LET got == get_collection(db, name) IN
    /\ run.pc = "idle"
    /\ IF got.ok
       THEN /\ run' = [pc |-> "scanning", name |-> name,
                       scanned |-> scan(files, got.row.patterns),
                       todo |-> scan(files, got.row.patterns),
                       seen_paths |-> {}, stats |-> ZeroStats,
                       repeat |-> IF prev[name].valid /\ prev[name].errors = 0
                                  THEN prev[name] ELSE NoPrev]
            /\ UNCHANGED last
       ELSE /\ last' = [op |-> "index_collection", ok |-> FALSE, name |-> name]
            /\ UNCHANGED run
    /\ UNCHANGED <<clock, db, files, prev, stdin, stdout, mcp, call>>

\* one iteration of the scan loop
IndexFileCall(relative_path, fault) ==
    LET res == index_file(db, files, run.name, relative_path, clock, fault) IN
    /\ relative_path \in run.todo
    /\ fault # NoFault => (~res.ok \/ fault[1] = "get_document")
    /\ clock + res.ticks <= MaxClock + 1
    /\ db' = res.db
    /\ clock' = clock + res.ticks
    /\ run' = loop_step(run, relative_path, res)
    /\ prev' = IF res.db = db THEN prev ELSE NoneChanged
    /\ UNCHANGED <<files, last, stdin, stdout, mcp, call>>

IndexFile(relative_path) ==
    /\ run.pc = "scanning"
    /\ IndexFileCall(relative_path, NoFault)

\* the iteration with one statement of one of its store calls failing
IndexFileFails(relative_path, fault) ==
    /\ run.pc = "scanning"
    /\ fault \in IndexFaults
    /\ IndexFileCall(relative_path, fault)

\* the scan loop is over: the statistics are returned
IndexCollectionDone ==
    /\ run.pc = "scanning"
    /\ run.todo = {}
    /\ last' = [op |-> "index_collection", ok |-> TRUE, name |-> run.name,
                stats |-> run.stats, scanned |-> run.scanned,
                seen_paths |-> run.seen_paths, repeat |-> run.repeat]
    /\ prev' = [prev EXCEPT ![run.name] =
                   [valid |-> TRUE, files_scanned |-> run.stats.files_scanned,
                    errors |-> run.stats.errors]]
    /\ run' = IdleRun
    /\ UNCHANGED <<clock, db, files, stdin, stdout, mcp, call>>

Next ==
    \/ \E c \in Colls, pl \in PatternLists : AddCollection(c, pl)
    \/ \E c \in Colls : RemoveCollection(c)
    \/ \E in \in ContentInputs : InsertContent(in)
    \/ \E c \in Colls, p \in Paths, in \in DocInputs : UpsertDocument(c, p, in)
    \/ \E c \in Colls, p \in Paths : DeactivateDocument(c, p)

\* the public methods of Store, called in any order on a fresh database
Spec == Init /\ [][Next]_vars

\* upsert_document and deactivate_document on a connection whose statements
\* can fail
NextFault ==
    \/ \E c \in Colls, p \in Paths, in \in DocInputs : UpsertDocument(c, p, in)
    \/ \E c \in Colls, p \in Paths : DeactivateDocument(c, p)
    \/ \E c \in Colls, p \in Paths, in \in DocInputs, f \in 1..4 :
          UpsertDocumentFails(c, p, in, f)
    \/ \E c \in Colls, p \in Paths, f \in 1..3 : DeactivateDocumentFails(c, p, f)

SpecFault == Init /\ [][NextFault]_vars

\* the indexer over a file tree that changes between runs
NextIndex ==
    \/ \E p \in Paths, st \in FileStates : WriteFile(p, st)
    \/ \E c \in Colls, pl \in PatternLists : AddCollection(c, pl)
    \/ \E c \in Colls : RemoveCollection(c)
    \/ \E c \in Colls, p \in Paths : DeactivateDocument(c, p)
    \/ \E c \in Colls : IndexCollectionStart(c)
    \/ \E p \in Paths : IndexFile(p)
    \/ IndexCollectionDone

InitIndex ==
    /\ Fresh
    /\ files \in [Paths -> FileStates]
    /\ stdin = <<>>
    /\ stdout = <<>>
    /\ mcp = McpStart
    /\ call = NoCall

SpecIndex == InitIndex /\ [][NextIndex]_vars

\* the indexer at work on one collection, on a connection whose statements
\* can fail
NextIndexFault ==
    \/ \E pl \in PatternLists : AddCollection("docs", pl)
    \/ IndexCollectionStart("docs")
    \/ \E p \in Paths : IndexFile(p)
    \/ \E p \in Paths, ft \in IndexFaults : IndexFileFails(p, ft)
    \/ IndexCollectionDone

SpecIndexFault == InitIndex /\ [][NextIndexFault]_vars

(***************************************************************************)
(* The state machine of the MCP server: the loop of McpServer::run.        *)
(***************************************************************************)
InputStreams == UNION {[1..n -> ReadEvents] : n \in 0..MaxLines}

InitMcp ==
    /\ Fresh
    /\ files = [p \in Paths |-> NoFile]
    /\ stdin \in InputStreams
    /\ stdout = <<>>
    /\ mcp = McpStart
    /\ call = NoCall

\* reader.read_line: end of file, a read error, an empty line, or a line
\* whose response is then built
McpRead ==
    /\ mcp.pc = "read"
    /\ IF mcp.pos = Len(stdin)
       THEN mcp' = [mcp EXCEPT !.pc = "done", !.stop = "eof", !.result = "ok"]
       ELSE LET ev == stdin[mcp.pos + 1] IN
            IF ev.read = "error"
            THEN mcp' = [mcp EXCEPT !.pc = "done", !.pos = @ + 1,
                                    !.stop = "read_error", !.result = "ok"]
            ELSE IF trimmed_is_empty(ev)
            THEN mcp' = [mcp EXCEPT !.pos = @ + 1]
            ELSE mcp' = [mcp EXCEPT !.pc = "write", !.pos = @ + 1,
                                    !.pending = Some(to_string(response_to(ev)))]
    /\ UNCHANGED <<stdin, stdout, clock, db, files, run, prev, last, call>>

\* writer.write_all and writer.flush succeed
McpWrite ==
    /\ mcp.pc = "write"
    /\ stdout' = Append(stdout, [for |-> mcp.pos, line |-> mcp.pending.v])
    /\ mcp' = [mcp EXCEPT !.pc = "read", !.pending = None]
    /\ UNCHANGED <<stdin, clock, db, files, run, prev, last, call>>

\* writer.write_all or writer.flush fails: `?` returns the error from run
McpWriteFails ==
    /\ mcp.pc = "write"
    /\ mcp' = [mcp EXCEPT !.pc = "done", !.pending = None,
                          !.stop = "write_error", !.result = "err"]
    /\ UNCHANGED <<stdin, stdout, clock, db, files, run, prev, last, call>>

NextMcp ==
    \/ McpRead
    \/ McpWrite
    \/ McpWriteFails

SpecMcp == InitMcp /\ [][NextMcp]_vars

(***************************************************************************)
(* One call of McpServer::handle_request.                                  *)
(***************************************************************************)
\* the store and the server at rest
AtRest ==
    /\ Fresh
    /\ files = [p \in Paths |-> NoFile]
    /\ stdin = <<>>
    /\ stdout = <<>>
    /\ mcp = McpStart

Methods ==
    {"initialize", "notifications/initialized", "tools/list", "tools/call", "ping",
     "resources/list", "Ping"}

Requests ==
    [jsonrpc : {"2.0"},
     id : {None, Some(JNum(1)), Some(JNum(2))},
     method : Methods,
     params : {None, Some(JObj(<<>>)), Some(JObj("name" :> JStr("qfs_status"))),
               Some(JObj("name" :> JStr("qfs_nope")))}]

InitRequest ==
    /\ AtRest
    /\ call \in {[op |-> "handle_request", done |-> FALSE, request |-> r] : r \in Requests}

HandleRequest ==
    /\ call.op = "handle_request"
    /\ ~call.done
    /\ call' = [op |-> "handle_request", done |-> TRUE, request |-> call.request,
                response |-> handle_request(call.request)]
    /\ UNCHANGED <<clock, db, files, run, prev, last, stdin, stdout, mcp>>

NextRequest == HandleRequest

SpecRequest == InitRequest /\ [][NextRequest]_vars

(***************************************************************************)
(* The state machine of the path contexts.                                 *)
(***************************************************************************)
Scopes == {NULL, "docs", "notes"}

ContextPrefixes == {<<"/">>, <<"g">>, <<"/", "g">>, <<"/", "g", "/">>}

ContextTexts == {"general", "specific"}

FilePaths == {<<"g">>, <<"/", "g">>, <<"g", "/", "a">>, <<"a">>}

SetContext(collection, path_prefix, context) ==
    LET res == set_context(db, collection, path_prefix, context, clock) IN
    /\ call = NoCall
    /\ clock <= MaxContextCalls
    /\ db' = res.db
    /\ clock' = clock + 1
    /\ last' = [op |-> "set_context", ok |-> res.ok, collection |-> collection,
                path_prefix |-> normalize_path(path_prefix), context |-> context,
                rows |-> Cardinality(db.path_contexts),
                existed |-> \E r \in db.path_contexts :
                               /\ r.collection = collection
                               /\ r.path_prefix = normalize_path(path_prefix)]
    /\ UNCHANGED <<files, run, prev, stdin, stdout, mcp, call>>

RemoveContext(collection, path_prefix) ==
    LET res == remove_context(db, collection, path_prefix) IN
    /\ call = NoCall
    /\ clock <= MaxContextCalls
    /\ db' = res.db
    /\ clock' = clock + 1
    /\ last' = [op |-> "remove_context", ok |-> res.ok, collection |-> collection,
                path_prefix |-> normalize_path(path_prefix), removed |-> res.removed]
    /\ UNCHANGED <<files, run, prev, stdin, stdout, mcp, call>>

FindContextForPath(collection, file_path) ==
    /\ call = NoCall
    /\ \E order \in Arrangements(context_rows(db, collection)) :
          /\ specific_first(order)
          /\ call' = [op |-> "find_context_for_path", collection |-> collection,
                      file_path |-> file_path,
                      result |-> find_context_for_path(db, collection, file_path, order)]
    /\ UNCHANGED <<clock, db, files, run, prev, last, stdin, stdout, mcp>>

GetAllContextsForPath(collection, file_path) ==
    /\ call = NoCall
    /\ \E order \in Arrangements(context_rows(db, collection)) :
          /\ general_first(order)
          /\ call' = [op |-> "get_all_contexts_for_path", collection |-> collection,
                      file_path |-> file_path,
                      result |-> get_all_contexts_for_path(db, collection, file_path, order)]
    /\ UNCHANGED <<clock, db, files, run, prev, last, stdin, stdout, mcp>>

\* find_context_for_path and get_all_contexts_for_path called one after the
\* other for one collection and path, each query giving its rows in its order
FindAndGetAllContexts(collection, file_path) ==
    /\ call = NoCall
    /\ \E first \in Arrangements(context_rows(db, collection)),
          second \in Arrangements(context_rows(db, collection)) :
          /\ specific_first(first)
          /\ general_first(second)
          /\ call' = [op |-> "find_and_get_all_contexts", collection |-> collection,
                      file_path |-> file_path,
                      found |-> find_context_for_path(db, collection, file_path, first),
                      all |-> get_all_contexts_for_path(db, collection, file_path, second)]
    /\ UNCHANGED <<clock, db, files, run, prev, last, stdin, stdout, mcp>>

NextContext ==
    \/ \E c \in Scopes, x \in ContextPrefixes, t \in ContextTexts : SetContext(c, x, t)
    \/ \E c \in Scopes, x \in ContextPrefixes : RemoveContext(c, x)
    \/ \E c \in Colls, p \in FilePaths : FindContextForPath(c, p)
    \/ \E c \in Colls, p \in FilePaths : GetAllContextsForPath(c, p)
    \/ \E c \in Colls, p \in FilePaths : FindAndGetAllContexts(c, p)

SpecContext == Init /\ [][NextContext]_vars

(***************************************************************************)
(* Store: multi_get.  A pattern is a sequence of pieces of text: names,    *)
(* "/", ",", "*" and the scheme "qfs://".                                  *)
(***************************************************************************)
MaxSetup == 2

\* the text of a collection name or of a document path
chars_of(name) ==
    CASE name = "docs"  -> <<"docs">>
      [] name = "notes" -> <<"notes">>
      [] name = "a.txt" -> <<"a", ".txt">>
      [] name = "b.txt" -> <<"b", ".txt">>

\* the name a text spells, or a name no row has
string_of(text) ==
    IF \E n \in Colls \cup Paths : chars_of(n) = text
    THEN CHOOSE n \in Colls \cup Paths : chars_of(n) = text
    ELSE "?"

\* str::contains
contains(str, piece) == \E i \in DOMAIN str : str[i] = piece

\* str::ends_with, the LIKE '%name' of parse_comma_list
ends_with(str, suffix) ==
    /\ Len(suffix) <= Len(str)
    /\ SubSeq(str, Len(str) - Len(suffix) + 1, Len(str)) = suffix

\* str::split_once
split_once(str, piece) ==
    IF ~contains(str, piece) THEN [some |-> FALSE] ELSE
    LET i == CHOOSE i \in DOMAIN str :
                 str[i] = piece /\ \A j \in 1..(i - 1) : str[j] # piece
    IN  [some |-> TRUE, left |-> SubSeq(str, 1, i - 1),
         right |-> SubSeq(str, i + 1, Len(str))]

\* str::split(',') with the empty names filtered out
RECURSIVE split_names(_)
split_names(str) ==
    LET cut == split_once(str, ",") IN
    IF ~cut.some THEN (IF str = <<>> THEN <<>> ELSE <<str>>)
    ELSE (IF cut.left = <<>> THEN <<>> ELSE <<cut.left>>) \o split_names(cut.right)

\* glob::Pattern::matches with the default options: "*" matches any text
RECURSIVE pattern_matches(_, _)
pattern_matches(pattern, str) ==
    IF pattern = <<>> THEN str = <<>>
    ELSE IF Head(pattern) = "*"
         THEN \/ pattern_matches(Tail(pattern), str)
              \/ str # <<>> /\ pattern_matches(pattern, Tail(str))
         ELSE /\ str # <<>>
              /\ Head(str) = Head(pattern)
              /\ pattern_matches(Tail(pattern), Tail(str))

\* Store::get_content
get_content(d, hash) ==
    LET hits == {r \in d.content : r.hash = hash}
    IN  IF hits # {} THEN [ok |-> TRUE, content |-> CHOOSE r \in hits : TRUE]
        ELSE [ok |-> FALSE]

\* SELECT d.collection, d.path, LENGTH(c.content) FROM documents d
\* JOIN content c ON c.hash = d.hash WHERE d.active = 1
active_with_content(d) ==
    {[collection |-> r.collection, path |-> r.path, size |-> Len(c.content)] :
        <<r, c>> \in {x \in d.documents \X d.content : x[1].active /\ x[2].hash = x[1].hash}}

\* format!("{}/{}", collection, path)
full_path_of(collection, path) == chars_of(collection) \o <<"/">> \o chars_of(path)

\* Store::match_files_by_glob; `order` is the order the query yields its rows in
match_files_by_glob(d, pattern, order) ==
    LET hit(r) == \/ pattern_matches(pattern, full_path_of(r.collection, r.path))
                  \/ pattern_matches(pattern, chars_of(r.path))
                  \/ pattern_matches(pattern, <<"qfs://">> \o full_path_of(r.collection, r.path))
    IN  [ok |-> TRUE, files |-> SelectSeq(order, hit)]

\* Store::parse_comma_list; LIMIT 1 takes the first row of `order` that matches
RECURSIVE comma_list_files(_, _, _)
comma_list_files(d, names, order) ==
    IF names = <<>> THEN [ok |-> TRUE, files |-> <<>>] ELSE
    LET name  == Head(names)
        cut   == split_once(name, "/")
        got   == IF cut.some
                 THEN get_document(d, string_of(cut.left), string_of(cut.right))
                 ELSE [ok |-> FALSE]
        like  == SelectSeq(order, LAMBDA r : ends_with(chars_of(r.path), name))
        rest  == comma_list_files(d, Tail(names), order)
    IN  IF got.ok
        THEN LET content == get_content(d, got.doc.hash) IN
             IF ~content.ok THEN [ok |-> FALSE, files |-> <<>>]
             ELSE IF ~rest.ok THEN rest
             ELSE [ok |-> TRUE,
                   files |-> <<[collection |-> got.doc.collection, path |-> got.doc.path,
                                size |-> content.content.size]>> \o rest.files]
        ELSE IF ~rest.ok THEN rest
        ELSE [ok |-> TRUE,
              files |-> (IF like = <<>> THEN <<>> ELSE <<like[1]>>) \o rest.files]

parse_comma_list(d, input, order) == comma_list_files(d, split_names(input), order)

\* text.lines() of the stored bytes, which hold no line break
lines_of(data) == <<data>>

\* the text of a record: the lines taken and the count of lines left out
text_of(data, max_lines) ==
    LET lines == lines_of(data) IN
    IF ~max_lines.some THEN [lines |-> lines, truncated |-> 0]
    ELSE [lines |-> SubSeq(lines, 1, IF max_lines.v < Len(lines) THEN max_lines.v ELSE Len(lines)),
          truncated |-> IF Len(lines) > max_lines.v THEN Len(lines) - max_lines.v ELSE 0]

\* the loop of multi_get over the files found
RECURSIVE multi_get_records(_, _, _, _)
multi_get_records(d, found, max_bytes, max_lines) ==
    IF found = <<>> THEN <<>> ELSE
    LET f    == Head(found)
        rest == multi_get_records(d, Tail(found), max_bytes, max_lines)
        doc  == get_document(d, f.collection, f.path)
        content == IF doc.ok THEN get_content(d, doc.doc.hash) ELSE [ok |-> FALSE]
    IN  IF f.size > max_bytes
        THEN <<[path |-> full_path_of(f.collection, f.path), collection |-> f.collection,
                title |-> None, content |-> None, size |-> f.size, skipped |-> TRUE,
                skip_reason |-> Some(<<"File too large", f.size, max_bytes>>)]>> \o rest
        ELSE IF doc.ok /\ content.ok
        THEN <<[path |-> full_path_of(f.collection, f.path), collection |-> doc.doc.collection,
                title |-> Some(doc.doc.title),
                content |-> Some(text_of(content.content.content, max_lines)),
                size |-> f.size, skipped |-> FALSE, skip_reason |-> None]>> \o rest
        ELSE rest

\* the files multi_get finds for its pattern
multi_get_files(d, pattern, order) ==
    LET is_glob == contains(pattern, "*") \/ contains(pattern, "?")
        is_comma_list == contains(pattern, ",") /\ ~is_glob
        parts == split_once(pattern, "/")
        got == IF parts.some
               THEN get_document(d, string_of(parts.left), string_of(parts.right))
               ELSE [ok |-> FALSE]
    IN  IF is_glob THEN match_files_by_glob(d, pattern, order)
        ELSE IF is_comma_list THEN parse_comma_list(d, pattern, order)
        ELSE IF ~got.ok THEN [ok |-> TRUE, files |-> <<>>]
        ELSE LET content == get_content(d, got.doc.hash) IN
             IF ~content.ok THEN [ok |-> FALSE, files |-> <<>>]
             ELSE [ok |-> TRUE,
                   files |-> <<[collection |-> got.doc.collection, path |-> got.doc.path,
                                size |-> content.content.size]>>]

\* multi_get with the limit of the largest file in place of max_bytes
multi_get_no_limit(d, pattern, max_bytes, max_lines, order) ==
    LET found == multi_get_files(d, pattern, order) IN
    IF ~found.ok THEN [ok |-> FALSE, results |-> <<>>]
    ELSE [ok |-> TRUE,
          results |-> multi_get_records(d, found.files, Len("yy"), max_lines)]

\* Store::multi_get
multi_get(d, pattern, max_bytes, max_lines, order) ==
    LET found == multi_get_files(d, pattern, order) IN
    IF ~found.ok THEN [ok |-> FALSE, results |-> <<>>]
    ELSE [ok |-> TRUE,
          results |-> multi_get_records(d, found.files, max_bytes, max_lines)]

(***************************************************************************)
(* The state machine of multi_get: a store filled by direct calls, then    *)
(* one call of multi_get.                                                  *)
(***************************************************************************)
MultiGetPatterns ==
    { <<"docs", "/", "a", ".txt">>,
      <<"a", ".txt">>,
      <<"*", ".txt">>,
      <<"notes", "/", "*">>,
      <<"qfs://", "docs", "/", "*">>,
      <<"docs", "/", "a", ".txt", ",", "b", ".txt">>,
      <<".txt", ",", ",", "docs", "/", "b">> }

MaxBytesValues == {0, 1, 2}

MaxLinesValues == {None, Some(0), Some(1)}

\* the indexer's two writes for a file of a collection: its content, its document
PutDocumentCall(collection, path, bytes) ==
    LET hash == calculate_hash(bytes)
        c    == insert_content(db, hash, bytes, "text/plain", clock, 0)
        res  == upsert_document(c.db, collection, path, NULL, hash, ".txt", bytes, clock, 0)
    IN  /\ call = NoCall
        /\ db' = res.db
        /\ clock' = clock + 1
        /\ last' = [op |-> "put_document", ok |-> res.ok, collection |-> collection,
                    path |-> path]
        /\ UNCHANGED <<files, run, prev, stdin, stdout, mcp, call>>

PutDocument(collection, path, bytes) ==
    /\ clock <= MaxSetup
    /\ PutDocumentCall(collection, path, bytes)

\* a direct Store::insert_content
PutContent(in) ==
    /\ call = NoCall
    /\ clock <= MaxSetup
    /\ db' = insert_content(db, in.hash, in.data, in.content_type, clock, 0).db
    /\ clock' = clock + 1
    /\ last' = [op |-> "insert_content", ok |-> TRUE, hash |-> in.hash]
    /\ UNCHANGED <<files, run, prev, stdin, stdout, mcp, call>>

\* a direct Store::upsert_document, whose hash may have no content row
PutRow(collection, path, in) ==
    /\ call = NoCall
    /\ clock <= MaxSetup
    /\ db' = upsert_document(db, collection, path, in.title, in.hash,
                             in.file_type, in.body, clock, 0).db
    /\ clock' = clock + 1
    /\ last' = [op |-> "upsert_document", ok |-> TRUE, collection |-> collection,
                path |-> path]
    /\ UNCHANGED <<files, run, prev, stdin, stdout, mcp, call>>

\* a direct Store::deactivate_document
DropDocumentCall(collection, path) ==
    /\ call = NoCall
    /\ get_document(db, collection, path).ok
    /\ db' = deactivate_document(db, collection, path, 0).db
    /\ clock' = clock + 1
    /\ last' = [op |-> "deactivate_document", ok |-> TRUE, collection |-> collection,
                path |-> path]
    /\ UNCHANGED <<files, run, prev, stdin, stdout, mcp, call>>

DropDocument(collection, path) ==
    /\ clock <= MaxSetup
    /\ DropDocumentCall(collection, path)

MultiGet(pattern, max_bytes, max_lines) ==
    /\ call = NoCall
    /\ \E order \in Arrangements(active_with_content(db)) :
          call' = [op |-> "multi_get", pattern |-> pattern, max_bytes |-> max_bytes,
                   max_lines |-> max_lines,
                   result |-> multi_get(db, pattern, max_bytes, max_lines, order)]
    /\ UNCHANGED <<clock, db, files, run, prev, last, stdin, stdout, mcp>>

NextMultiGet ==
    \/ \E c \in Colls, p \in Paths, b \in Bytes : PutDocument(c, p, b)
    \/ \E in \in ContentInputs : PutContent(in)
    \/ \E c \in Colls, p \in Paths, in \in DocInputs : PutRow(c, p, in)
    \/ \E c \in Colls, p \in Paths : DropDocument(c, p)
    \/ \E pattern \in MultiGetPatterns, b \in MaxBytesValues, l \in MaxLinesValues :
          MultiGet(pattern, b, l)

SpecMultiGet == Init /\ [][NextMultiGet]_vars

(***************************************************************************)
(* The state machine of ensure_schema: a database file, new or written by  *)
(* some version of the program, is opened again and again.                 *)
(***************************************************************************)
MaxOpens == 8

\* the versions a database file may have been written by
WrittenVersions == 1..5

DatabaseFiles ==
    {NewFile} \cup
    {[NewFile EXCEPT !.index_state =
                TableOf({[key |-> "schema_version", value |-> i64_to_string(v)]})] :
        v \in WrittenVersions}

InitSchema ==
    /\ clock = 1
    /\ db \in DatabaseFiles
    /\ run = IdleRun
    /\ prev = NoneChanged
    /\ last = [op |-> "none", ok |-> TRUE]
    /\ files = [p \in Paths |-> NoFile]
    /\ stdin = <<>>
    /\ stdout = <<>>
    /\ mcp = McpStart
    /\ call = NoCall

EnsureSchemaCall(fail) ==
    LET res == ensure_schema(db, fail) IN
    /\ clock <= MaxOpens
    /\ fail # 0 => ~res.ok
    /\ db' = res.db
    /\ clock' = clock + 1
    /\ last' = [op |-> "ensure_schema", ok |-> res.ok, before |-> db.index_state]
    /\ UNCHANGED <<files, run, prev, stdin, stdout, mcp, call>>

EnsureSchema ==
    /\ clock <= MaxOpens
    /\ EnsureSchemaCall(0)

EnsureSchemaFails(fail) ==
    /\ fail \in 1..3
    /\ EnsureSchemaCall(fail)

NextSchema ==
    \/ EnsureSchema
    \/ \E fail \in 1..3 : EnsureSchemaFails(fail)

SpecSchema == InitSchema /\ [][NextSchema]_vars

(***************************************************************************)
(* Store: embeddings and the FTS query.                                    *)
(***************************************************************************)
\* INSERT OR REPLACE INTO embeddings, PRIMARY KEY (hash, chunk_index)
insert_embedding(d, hash, chunk_index, char_offset, model, embedding, now) ==
    [db |-> [d EXCEPT !.embeddings =
                {e \in @ : ~(e.hash = hash /\ e.chunk_index = chunk_index)} \cup
                {[hash |-> hash, chunk_index |-> chunk_index, char_offset |-> char_offset,
                  model |-> model, embedding |-> embedding, created_at |-> now]}],
     ok |-> TRUE]

\* Store::count_embeddings: with a collection, the hashes that have an
\* embedding and an active document of the collection; without one, the
\* hashes of table embeddings
count_embeddings(d, collection) ==
    IF collection # NULL
    THEN Cardinality({e.hash : e \in {e \in d.embeddings :
            \E r \in d.documents : r.hash = e.hash /\ r.collection = collection /\ r.active}})
    ELSE Cardinality({e.hash : e \in d.embeddings})

\* embeddings e JOIN documents d ON d.hash = e.hash WHERE d.active = 1,
\* with d.collection = ?1 when a collection is given
embedding_search_rows(d, collection) ==
    {[hash |-> x[1].hash, chunk_index |-> x[1].chunk_index, embedding |-> x[1].embedding,
      doc_id |-> x[2].id, collection |-> x[2].collection, path |-> x[2].path,
      title |-> x[2].title] :
        x \in {y \in d.embeddings \X d.documents :
                  /\ y[2].hash = y[1].hash
                  /\ y[2].active
                  /\ collection # NULL => y[2].collection = collection}}

\* ORDER BY d.id, e.chunk_index
RECURSIVE by_id_and_chunk(_)
by_id_and_chunk(rows) ==
    IF rows = {} THEN <<>> ELSE
    LET first == CHOOSE r \in rows : \A s \in rows :
                     \/ r.doc_id < s.doc_id
                     \/ r.doc_id = s.doc_id /\ r.chunk_index <= s.chunk_index
    IN  <<first>> \o by_id_and_chunk(rows \ {first})

\* Store::get_all_embeddings_for_search
get_all_embeddings_for_search(d, collection) ==
    by_id_and_chunk(embedding_search_rows(d, collection))

\* content types the store and the searcher hold to be binary
is_binary_type(content_type) ==
    content_type \in {"application/octet-stream", "image/png", "audio/mpeg", "video/mp4"}

\* the rows of documents_fts JOIN documents JOIN content that pass the WHERE
\* clause, in the order of fts_rows
RECURSIVE bm25_join(_, _, _)
bm25_join(d, fts_rows, collection) ==
    IF fts_rows = <<>> THEN <<>> ELSE
    LET f    == Head(fts_rows)
        hits == {x \in d.documents \X d.content :
                    /\ x[1].id = f.rowid
                    /\ x[2].hash = x[1].hash
                    /\ x[1].active
                    /\ collection # NULL => x[1].collection = collection}
        rest == bm25_join(d, Tail(fts_rows), collection)
    IN  IF hits = {} THEN rest
        ELSE LET x == CHOOSE x \in hits : TRUE IN
             <<[id |-> x[1].id, collection |-> x[1].collection, path |-> x[1].path,
                title |-> x[1].title, hash |-> x[1].hash, content_type |-> x[2].content_type,
                size |-> x[2].size, bm25_score |-> f.bm25_score]>> \o rest

\* Store::search_bm25; fts_rows is what documents_fts MATCH yields for the
\* query, ORDER BY bm25_score: the rowids that match with their scores
store_search_bm25(d, fts_query, collection, limit, include_binary, fts_rows) ==
    IF fts_query = <<>> THEN <<>> ELSE
    LET joined  == bm25_join(d, fts_rows, collection)
        limited == SubSeq(joined, 1, IF limit < Len(joined) THEN limit ELSE Len(joined))
    IN  SelectSeq(limited, LAMBDA r : ~(is_binary_type(r.content_type) /\ ~include_binary))

(***************************************************************************)
(* Searcher (search/mod.rs).  A query is a sequence of characters; a score *)
(* is a fraction.                                                          *)
(***************************************************************************)
Fraction(num, den) == [num |-> num, den |-> den]

\* a >= b for fractions with positive denominators
at_least(a, b) ==
    IF a.den = b.den THEN a.num >= b.num ELSE a.num * b.den >= b.num * a.den

\* char::is_whitespace
is_whitespace(c) == c = " "

\* char::is_alphanumeric: the letters and digits of Unicode, "U+00E9" being
\* the one character e with acute accent
is_alphanumeric(c) == c \in {"a", "7", "U+00E9"}

RECURSIVE trim_start(_)
trim_start(str) ==
    IF str # <<>> /\ is_whitespace(Head(str)) THEN trim_start(Tail(str)) ELSE str

RECURSIVE trim_end(_)
trim_end(str) ==
    IF str # <<>> /\ is_whitespace(str[Len(str)])
    THEN trim_end(SubSeq(str, 1, Len(str) - 1)) ELSE str

\* str::trim
trim(str) == trim_end(trim_start(str))

\* str::split_whitespace
RECURSIVE split_whitespace(_)
split_whitespace(str) ==
    LET t == trim_start(str) IN
    IF t = <<>> THEN <<>> ELSE
    LET n == CHOOSE n \in 1..Len(t) :
                 /\ \A i \in 1..n : ~is_whitespace(t[i])
                 /\ n = Len(t) \/ is_whitespace(t[n + 1])
    IN  <<SubSeq(t, 1, n)>> \o split_whitespace(SubSeq(t, n + 1, Len(t)))

\* [String]::join
RECURSIVE join(_, _)
join(strs, sep) ==
    IF strs = <<>> THEN <<>>
    ELSE IF Len(strs) = 1 THEN strs[1]
    ELSE strs[1] \o sep \o join(Tail(strs), sep)

\* the term of the FTS query for a word kept as `clean`
fts_term(clean) == IF clean = <<>> THEN <<>> ELSE <<"\"">> \o clean \o <<"\"", "*">>

\* sanitize_fts_query with every character but white space kept
sanitize_keep_all(query) ==
    LET terms == split_whitespace(trim(query))
    IN  join([i \in DOMAIN terms |-> fts_term(terms[i])], <<" ", "A", "N", "D", " ">>)

sanitize_fts_query(query) ==
    LET q == trim(query) IN
    IF q = <<>> THEN <<>> ELSE
    LET terms == split_whitespace(q)
        clean(term) == SelectSeq(term, LAMBDA c : is_alphanumeric(c) \/ c = "_" \/ c = "-")
        fts_terms == SelectSeq([i \in DOMAIN terms |-> fts_term(clean(terms[i]))],
                               LAMBDA t : t # <<>>)
    IN  IF terms = <<>> \/ fts_terms = <<>> THEN <<>>
        ELSE join(fts_terms, <<" ", "A", "N", "D", " ">>)

abs(x) == IF x < 0 THEN -x ELSE x

\* normalize_bm25_score: 1.0 / (1.0 + bm25_score.abs())
normalize_bm25_score(bm25_score) == Fraction(1, 1 + abs(bm25_score))

\* Searcher::search_bm25; store_calls counts the calls of Store functions
search_bm25(d, query, options, fts_rows) ==
    LET fts_query == sanitize_fts_query(query) IN
    IF fts_query = <<>> THEN [ok |-> TRUE, results |-> <<>>, store_calls |-> 0] ELSE
    LET rows == store_search_bm25(d, fts_query, options.collection, options.limit,
                                  options.include_binary, fts_rows)
        results == [i \in DOMAIN rows |->
                       [id |-> rows[i].id, collection |-> rows[i].collection,
                        path |-> rows[i].path, mime_type |-> rows[i].content_type,
                        is_binary |-> is_binary_type(rows[i].content_type),
                        score |-> normalize_bm25_score(rows[i].bm25_score),
                        chunk_index |-> None]]
    IN  [ok |-> TRUE,
         results |-> SelectSeq(results, LAMBDA r : at_least(r.score, options.min_score)),
         store_calls |-> 1 + Len(rows)]

\* a search in mode vector that answers with no results where there are
\* embeddings
search_vector_empty(d, options) ==
    IF count_embeddings(d, options.collection) = 0
    THEN [ok |-> FALSE, error |-> "EmbeddingsRequired", results |-> <<>>]
    ELSE [ok |-> TRUE, results |-> <<>>]

\* Searcher::search_vector
search_vector(d, options) ==
    IF count_embeddings(d, options.collection) = 0
    THEN [ok |-> FALSE, error |-> "EmbeddingsRequired", results |-> <<>>]
    ELSE [ok |-> FALSE, error |-> "EmbeddingError", results |-> <<>>]

\* cosine_similarity of two of the unit vectors "u" and "v", which are orthogonal
cosine_similarity(a, b) == IF a = b THEN Fraction(1, 1) ELSE Fraction(0, 1)

\* Vec::sort_by on the similarity, descending: the sort is stable
RECURSIVE sort_by_score(_)
sort_by_score(scored) ==
    IF scored = <<>> THEN <<>> ELSE
    LET i == CHOOSE i \in DOMAIN scored :
                 /\ \A j \in DOMAIN scored : at_least(scored[i].score, scored[j].score)
                 /\ \A j \in 1..(i - 1) : ~at_least(scored[j].score, scored[i].score)
    IN  <<scored[i]>> \o
        sort_by_score(SubSeq(scored, 1, i - 1) \o SubSeq(scored, i + 1, Len(scored)))

\* Searcher::search_vector_with_embedding
search_vector_with_embedding(d, query_embedding, options) ==
    LET embeddings == get_all_embeddings_for_search(d, options.collection) IN
    IF embeddings = <<>>
    THEN [ok |-> FALSE, error |-> "EmbeddingsRequired", results |-> <<>>] ELSE
    LET scored == sort_by_score(
                    [i \in DOMAIN embeddings |->
                        [id |-> embeddings[i].doc_id, collection |-> embeddings[i].collection,
                         path |-> embeddings[i].path, mime_type |-> "text/plain",
                         is_binary |-> FALSE,
                         score |-> cosine_similarity(query_embedding, embeddings[i].embedding),
                         chunk_index |-> Some(embeddings[i].chunk_index)]])
        taken == SubSeq(scored, 1, IF options.limit < Len(scored) THEN options.limit
                                   ELSE Len(scored))
    IN  [ok |-> TRUE,
         results |-> SelectSeq(taken, LAMBDA r : at_least(r.score, options.min_score))]

\* Searcher::search_hybrid
search_hybrid(d, options) ==
    IF count_embeddings(d, options.collection) = 0
    THEN [ok |-> FALSE, error |-> "EmbeddingsRequired", results |-> <<>>]
    ELSE [ok |-> FALSE, error |-> "EmbeddingError", results |-> <<>>]

\* the ranks of reciprocal rank fusion run to 4, twice the largest limit; the
\* scores are fractions over the product of the denominators k + rank
RrfScale(k) == (k + 1) * (k + 2) * (k + 3) * (k + 4)

\* the sum of 1 / (k + rank + 1) over the places of a list, counted from 0,
\* that hold a result with the id
RECURSIVE rrf_sum(_, _, _, _)
rrf_sum(results, id, k, rank) ==
    IF results = <<>> THEN 0
    ELSE (IF Head(results).id = id THEN RrfScale(k) \div (k + rank + 1) ELSE 0)
         + rrf_sum(Tail(results), id, k, rank + 1)

\* rrf_entries with the vector results entered before the BM25 results
rrf_entries_vector_first(bm25_results, vector_results, k) ==
    LET all == vector_results \o bm25_results
        ids == {all[i].id : i \in DOMAIN all}
        first(id) == all[CHOOSE i \in DOMAIN all :
                            all[i].id = id /\ \A j \in 1..(i - 1) : all[j].id # id]
    IN  {[first(id) EXCEPT !.score =
            Fraction(rrf_sum(bm25_results, id, k, 0) + rrf_sum(vector_results, id, k, 0),
                     RrfScale(k))] : id \in ids}

\* the entries of the HashMap of reciprocal_rank_fusion: for every id the
\* sum of its terms and the first result with the id
rrf_entries(bm25_results, vector_results, k) ==
    LET all == bm25_results \o vector_results
        ids == {all[i].id : i \in DOMAIN all}
        first(id) == all[CHOOSE i \in DOMAIN all :
                            all[i].id = id /\ \A j \in 1..(i - 1) : all[j].id # id]
    IN  {[first(id) EXCEPT !.score =
            Fraction(rrf_sum(bm25_results, id, k, 0) + rrf_sum(vector_results, id, k, 0),
                     RrfScale(k))] : id \in ids}

\* reciprocal_rank_fusion: the entries sorted by score, descending; entries
\* of one score come in the order the HashMap yields them, which is any
reciprocal_rank_fusion(bm25_results, vector_results, k) ==
    {fused \in Arrangements(rrf_entries(bm25_results, vector_results, k)) :
        \A i, j \in DOMAIN fused : i < j => at_least(fused[i].score, fused[j].score)}

\* Searcher::search_hybrid_with_embedding: the results it may return
search_hybrid_with_embedding(d, query, query_embedding, options, fts_rows) ==
    LET twice == [options EXCEPT !.limit = options.limit * 2]
        bm25_results == search_bm25(d, query, twice, fts_rows)
        vector_results == search_vector_with_embedding(d, query_embedding, twice)
    IN  IF ~vector_results.ok THEN {vector_results} ELSE
        {[ok |-> TRUE,
          results |-> SubSeq(fused, 1, IF options.limit < Len(fused) THEN options.limit
                                       ELSE Len(fused))] :
            fused \in reciprocal_rank_fusion(bm25_results.results, vector_results.results, 60)}

(***************************************************************************)
(* The state machine of the searcher: documents are indexed, embedded and  *)
(* deactivated, then one search runs.                                      *)
(***************************************************************************)
MaxSearchSetup == 3

\* the scores bm25() gives: the better the match, the lower the number
RawScores == {-2, -1}

EmbeddingVectors == {"u", "v"}

ChunkIndexes == {0, 1}

SearchOptions ==
    [collection : {NULL, "docs"}, limit : {1, 2},
     min_score : {Fraction(0, 1), Fraction(1, 2)}, include_binary : {FALSE}]

\* the options of the searches that read no min_score or are run without one
PlainOptions == {o \in SearchOptions : o.min_score.num = 0}

\* what documents_fts MATCH may yield on the store: some of the rows of the
\* index, each with a score, in ascending order of the scores
FtsOutcomes(d) ==
    LET rowids == {f.rowid : f \in d.documents_fts} IN
    UNION { UNION { {order \in Arrangements({[rowid |-> r, bm25_score |-> score[r]] : r \in S}) :
                        \A i, j \in DOMAIN order :
                            i < j => order[i].bm25_score <= order[j].bm25_score}
                    : score \in [S -> RawScores] }
            : S \in SUBSET rowids }

AddDocument(collection, path, bytes) ==
    /\ clock <= MaxSearchSetup
    /\ PutDocumentCall(collection, path, bytes)

RemoveDocument(collection, path) ==
    /\ clock <= MaxSearchSetup
    /\ DropDocumentCall(collection, path)

\* a direct Store::insert_embedding
InsertEmbedding(hash, chunk_index, embedding) ==
    /\ call = NoCall
    /\ clock <= MaxSearchSetup
    /\ db' = insert_embedding(db, hash, chunk_index, 0, "model", embedding, clock).db
    /\ clock' = clock + 1
    /\ last' = [op |-> "insert_embedding", ok |-> TRUE, hash |-> hash,
                chunk_index |-> chunk_index]
    /\ UNCHANGED <<files, run, prev, stdin, stdout, mcp, call>>

SearchBm25(query, options) ==
    /\ call = NoCall
    /\ \E fts_rows \in FtsOutcomes(db) :
          call' = [op |-> "search_bm25", query |-> query, options |-> options,
                   fts_rows |-> fts_rows,
                   result |-> search_bm25(db, query, options, fts_rows)]
    /\ UNCHANGED <<clock, db, files, run, prev, last, stdin, stdout, mcp>>

SearchVector(options) ==
    /\ call = NoCall
    /\ call' = [op |-> "search_vector", options |-> options,
                result |-> search_vector(db, options)]
    /\ UNCHANGED <<clock, db, files, run, prev, last, stdin, stdout, mcp>>

SearchVectorWithEmbedding(query_embedding, options) ==
    /\ call = NoCall
    /\ call' = [op |-> "search_vector_with_embedding", options |-> options,
                query_embedding |-> query_embedding,
                result |-> search_vector_with_embedding(db, query_embedding, options)]
    /\ UNCHANGED <<clock, db, files, run, prev, last, stdin, stdout, mcp>>

SearchHybrid(options) ==
    /\ call = NoCall
    /\ call' = [op |-> "search_hybrid", options |-> options,
                result |-> search_hybrid(db, options)]
    /\ UNCHANGED <<clock, db, files, run, prev, last, stdin, stdout, mcp>>

SearchHybridWithEmbedding(query, query_embedding, options) ==
    /\ call = NoCall
    /\ \E fts_rows \in FtsOutcomes(db) :
          \E result \in search_hybrid_with_embedding(db, query, query_embedding,
                                                     options, fts_rows) :
              call' = [op |-> "search_hybrid_with_embedding", query |-> query,
                       options |-> options, query_embedding |-> query_embedding,
                       fts_rows |-> fts_rows, result |-> result]
    /\ UNCHANGED <<clock, db, files, run, prev, last, stdin, stdout, mcp>>

NextSearch ==
    \/ \E c \in Colls, b \in Bytes : AddDocument(c, "a.txt", b)
    \/ \E c \in Colls : RemoveDocument(c, "a.txt")
    \/ \E b \in Bytes, i \in ChunkIndexes, e \in EmbeddingVectors :
          InsertEmbedding(calculate_hash(b), i, e)
    \/ \E o \in SearchOptions : SearchBm25(<<"a">>, o)
    \/ \E o \in PlainOptions : SearchVector(o)
    \/ \E o \in SearchOptions, e \in EmbeddingVectors : SearchVectorWithEmbedding(e, o)
    \/ \E o \in PlainOptions : SearchHybrid(o)
    \/ \E o \in PlainOptions, e \in EmbeddingVectors :
          SearchHybridWithEmbedding(<<"a">>, e, o)

SpecSearch == Init /\ [][NextSearch]_vars

(***************************************************************************)
(* The state machine of the BM25 query: documents are indexed, then one    *)
(* search runs on a query of any characters.                               *)
(***************************************************************************)
MaxQueryLen == 3

QueryChars == {" ", "a", "-", "?", "U+00E9"}

Queries == UNION {[1..n -> QueryChars] : n \in 0..MaxQueryLen}

\* SearchOptions::default, no collection and no minimum score, with a limit
\* of 2 for its 20
DefaultOptions ==
    {o \in SearchOptions : o.collection = NULL /\ o.limit = 2 /\ o.min_score.num = 0}

NextQuery ==
    \/ \E b \in Bytes : AddDocument("docs", "a.txt", b)
    \/ \E q \in Queries, o \in DefaultOptions : SearchBm25(q, o)

SpecQuery == Init /\ [][NextQuery]_vars

(***************************************************************************)
(* The state machine of the fusion: the end of search_hybrid_with_embedding *)
(* on two rankings as search_bm25 and search_vector_with_embedding give    *)
(* them.                                                                   *)
(***************************************************************************)
MaxRanking == 3

\* the documents of the rankings, by id
RankedDocument(id) ==
    CASE id = 1 -> [collection |-> "docs", path |-> "a.txt"]
      [] id = 2 -> [collection |-> "docs", path |-> "b.txt"]
      [] id = 3 -> [collection |-> "notes", path |-> "a.txt"]

\* a result of search_bm25
Bm25Result(id) ==
    [id |-> id, collection |-> RankedDocument(id).collection, path |-> RankedDocument(id).path,
     mime_type |-> "text/markdown", is_binary |-> FALSE, score |-> Fraction(1, 2),
     chunk_index |-> None]

\* a result of search_vector_with_embedding: one for each chunk of a document
VectorResult(id, chunk_index) ==
    [id |-> id, collection |-> RankedDocument(id).collection, path |-> RankedDocument(id).path,
     mime_type |-> "text/plain", is_binary |-> FALSE, score |-> Fraction(1, 1),
     chunk_index |-> Some(chunk_index)]

\* the rankings: no document twice in a BM25 ranking, no chunk twice in a
\* vector ranking
Bm25Rankings ==
    {r \in UNION {[1..n -> {Bm25Result(id) : id \in 1..3}] : n \in 0..MaxRanking} :
        \A i, j \in DOMAIN r : r[i] = r[j] => i = j}

VectorRankings ==
    {r \in UNION {[1..n -> {VectorResult(id, c) : id \in 1..3, c \in ChunkIndexes}] :
                    n \in 0..MaxRanking} :
        \A i, j \in DOMAIN r : r[i] = r[j] => i = j}

InitFusion ==
    /\ AtRest
    /\ call \in {c \in [op : {"fusion"}, done : {FALSE}, bm25 : Bm25Rankings,
                          vector : VectorRankings, limit : {1, 2}] :
                    Len(c.bm25) <= c.limit * 2 /\ Len(c.vector) <= c.limit * 2}

\* reciprocal_rank_fusion and take(options.limit)
Fuse ==
    /\ call.op = "fusion"
    /\ ~call.done
    /\ \E fused \in reciprocal_rank_fusion(call.bm25, call.vector, 60) :
          call' = [call EXCEPT !.done = TRUE] @@
                  [fused |-> fused,
                   results |-> SubSeq(fused, 1, IF call.limit < Len(fused) THEN call.limit
                                                ELSE Len(fused))]
    /\ UNCHANGED <<clock, db, files, run, prev, last, stdin, stdout, mcp>>

NextFusion == Fuse

SpecFusion == InitFusion /\ [][NextFusion]_vars

(***************************************************************************)
(* The search entry point and the search tools of the MCP server            *)
(* (search/mod.rs, mcp/tools.rs).                                           *)
(***************************************************************************)
\* str::to_lowercase on the mode strings the tools are given
to_lowercase(s) ==
    CASE s = "Vector" -> "vector"
      [] s = "HYBRID" -> "hybrid"
      [] OTHER -> s

\* SearchMode::from_str
parse_search_mode(s) ==
    IF to_lowercase(s) \in {"bm25", "vector", "hybrid"}
    THEN [ok |-> TRUE, mode |-> to_lowercase(s)]
    ELSE [ok |-> FALSE, error |-> "InvalidQuery"]

\* Searcher::search
search(d, query, mode, options, fts_rows) ==
    CASE mode = "bm25" -> search_bm25(d, query, options, fts_rows)
      [] mode = "vector" -> search_vector(d, options)
      [] mode = "hybrid" -> search_hybrid(d, options)

server_error(message) == JsonRpcError(-32000, message)

\* the options both tools build: limit 20 unless given, min_score 0.0,
\* include_binary false
tool_options(args) ==
    [collection |-> IF args.collection.some THEN args.collection.v ELSE NULL,
     limit |-> IF args.limit.some THEN args.limit.v ELSE 20,
     min_score |-> Fraction(0, 1), include_binary |-> FALSE]

\* the end of both tools: the error of the search becomes a server error,
\* its results the text of the tool's result
tool_result(found) ==
    IF ~found.ok THEN [ok |-> FALSE, err |-> server_error(found.error)]
    ELSE [ok |-> TRUE, results |-> found.results]

\* tool_search
tool_search(d, args, mode, fts_rows) ==
    IF ~args.query.some
    THEN [ok |-> FALSE, err |-> invalid_params("Missing query parameter")]
    ELSE tool_result(search(d, args.query.v, mode, tool_options(args), fts_rows))

\* tool_query
tool_query(d, args, fts_rows) ==
    IF ~args.query.some
    THEN [ok |-> FALSE, err |-> invalid_params("Missing query parameter")] ELSE
    LET mode == parse_search_mode(IF args.mode.some THEN args.mode.v ELSE "bm25") IN
    IF ~mode.ok THEN [ok |-> FALSE, err |-> invalid_params(mode.error)]
    ELSE tool_result(search(d, args.query.v, mode.mode, tool_options(args), fts_rows))

\* handle_tool_call, for the search tools and for a name that is no tool's
handle_tool_call(d, tool_name, arguments, fts_rows) ==
    CASE tool_name = "qfs_search" -> tool_search(d, arguments, "bm25", fts_rows)
      [] tool_name = "qfs_vsearch" -> tool_search(d, arguments, "vector", fts_rows)
      [] tool_name = "qfs_query" -> tool_query(d, arguments, fts_rows)
      [] OTHER -> [ok |-> FALSE, err |-> invalid_params(<<"Unknown tool: ", tool_name>>)]

SearchModes == {"bm25", "vector", "hybrid"}

SearchTools == {"qfs_search", "qfs_vsearch", "qfs_query", "qfs_find"}

\* the arguments of a tool call: a member that is absent or of another type
\* than the tool reads is None
ToolArguments ==
    [query : {None, Some(<<"a">>)},
     mode : {None, Some("bm25"), Some("vector"), Some("Vector"), Some("hybrid"),
             Some("HYBRID"), Some("semantic")},
     collection : {None, Some("docs")},
     limit : {None, Some(1)}]

\* the tool call runs search_bm25, the one search that reads documents_fts
runs_bm25(tool_name, arguments) ==
    \/ tool_name = "qfs_search"
    \/ /\ tool_name = "qfs_query"
       /\ arguments.mode.some => to_lowercase(arguments.mode.v) = "bm25"

Search(query, mode, options) ==
    /\ call = NoCall
    /\ \E fts_rows \in IF mode = "bm25" THEN FtsOutcomes(db) ELSE {<<>>} :
          call' = [op |-> "search", query |-> query, mode |-> mode, options |-> options,
                   result |-> search(db, query, mode, options, fts_rows)]
    /\ UNCHANGED <<clock, db, files, run, prev, last, stdin, stdout, mcp>>

HandleToolCall(tool_name, arguments) ==
    /\ call = NoCall
    /\ \E fts_rows \in IF runs_bm25(tool_name, arguments) THEN FtsOutcomes(db) ELSE {<<>>} :
          call' = [op |-> "handle_tool_call", tool_name |-> tool_name,
                   arguments |-> arguments,
                   result |-> handle_tool_call(db, tool_name, arguments, fts_rows)]
    /\ UNCHANGED <<clock, db, files, run, prev, last, stdin, stdout, mcp>>

\* the store the tools are called on is filled in MaxToolSetup steps
MaxToolSetup == 2

IndexedDocument(collection, path, bytes) ==
    /\ clock <= MaxToolSetup
    /\ PutDocumentCall(collection, path, bytes)

DeactivatedDocument(collection, path) ==
    /\ clock <= MaxToolSetup
    /\ DropDocumentCall(collection, path)

EmbeddedChunk(hash, chunk_index, embedding) ==
    /\ call = NoCall
    /\ clock <= MaxToolSetup
    /\ db' = insert_embedding(db, hash, chunk_index, 0, "model", embedding, clock).db
    /\ clock' = clock + 1
    /\ last' = [op |-> "insert_embedding", ok |-> TRUE, hash |-> hash,
                chunk_index |-> chunk_index]
    /\ UNCHANGED <<files, run, prev, stdin, stdout, mcp, call>>

NextTools ==
    \/ \E c \in Colls, b \in Bytes : IndexedDocument(c, "a.txt", b)
    \/ \E c \in Colls : DeactivatedDocument(c, "a.txt")
    \/ \E b \in Bytes, i \in ChunkIndexes, e \in EmbeddingVectors :
          EmbeddedChunk(calculate_hash(b), i, e)
    \/ \E m \in SearchModes, o \in PlainOptions : Search(<<"a">>, m, o)
    \/ \E t \in SearchTools, a \in ToolArguments : HandleToolCall(t, a)

SpecTools == Init /\ [][NextTools]_vars

(***************************************************************************)
(* normalize_docid (store/mod.rs).  A docid is a sequence of characters.   *)
(***************************************************************************)
\* &s[begin..end] of a string of one-byte characters: a panic when begin is
\* beyond end or end beyond the length
slice(str, begin, end) ==
    IF begin > end \/ end > Len(str) THEN [ok |-> FALSE, value |-> <<>>]
    ELSE [ok |-> TRUE, value |-> SubSeq(str, begin + 1, end)]

\* normalize_docid; ok is FALSE when the call panics
normalize_docid(docid) ==
    LET trimmed == trim(docid)
        quoted(q) == trimmed # <<>> /\ Head(trimmed) = q /\ trimmed[Len(trimmed)] = q
        unquoted == IF quoted("\"") \/ quoted("'")
                    THEN slice(trimmed, 1, Len(trimmed) - 1)
                    ELSE [ok |-> TRUE, value |-> trimmed]
    IN  IF ~unquoted.ok THEN unquoted
        ELSE IF unquoted.value # <<>> /\ Head(unquoted.value) = "#"
             THEN slice(unquoted.value, 1, Len(unquoted.value))
             ELSE unquoted

MaxDocidLen == 3

DocidChars == {" ", "\"", "'", "#", "a"}

Docids == UNION {[1..n -> DocidChars] : n \in 0..MaxDocidLen}

InitDocid ==
    /\ AtRest
    /\ call \in [op : {"normalize_docid"}, done : {FALSE}, docid : Docids]

\* normalize_docid on the docid, on the docid after a #, and on the docid
\* between double quotes
NormalizeDocid ==
    /\ call.op = "normalize_docid"
    /\ ~call.done
    /\ call' = [call EXCEPT !.done = TRUE] @@
               [plain |-> normalize_docid(call.docid),
                hashed |-> normalize_docid(<<"#">> \o call.docid),
                quoted |-> normalize_docid(<<"\"">> \o call.docid \o <<"\"">>)]
    /\ UNCHANGED <<clock, db, files, run, prev, last, stdin, stdout, mcp>>

NextDocid == NormalizeDocid

SpecDocid == InitDocid /\ [][NextDocid]_vars

(***************************************************************************)
(* parse_path_with_line (lib.rs).  The input is a sequence of characters;  *)
(* a line number is the sequence of its decimal digits without leading     *)
(* zeros, since a usize of 64 bits is wider than the integers at hand.      *)
(***************************************************************************)
AsciiDigits == <<"0", "1", "2", "3", "4", "5", "6", "7", "8", "9">>

\* char::is_ascii_digit
is_ascii_digit(c) == \E i \in DOMAIN AsciiDigits : AsciiDigits[i] = c

digit_value(c) == (CHOOSE i \in DOMAIN AsciiDigits : AsciiDigits[i] = c) - 1

\* usize::MAX of a 64-bit target, 18446744073709551615
USIZE_MAX ==
    <<"1", "8", "4", "4", "6", "7", "4", "4", "0", "7", "3", "7", "0", "9", "5", "5",
      "1", "6", "1", "5">>

\* the digits of a number without its leading zeros
RECURSIVE strip_zeros(_)
strip_zeros(digits) ==
    IF Len(digits) > 1 /\ Head(digits) = "0" THEN strip_zeros(Tail(digits)) ELSE digits

\* a <= b for numbers given by digits of the same length
RECURSIVE digits_le(_, _)
digits_le(a, b) ==
    IF a = <<>> THEN TRUE
    ELSE IF digit_value(Head(a)) # digit_value(Head(b))
         THEN digit_value(Head(a)) < digit_value(Head(b))
         ELSE digits_le(Tail(a), Tail(b))

\* str::find(':'): the place of the first colon, counted from 0
find(str, ch) ==
    IF \E i \in DOMAIN str : str[i] = ch
    THEN Some((CHOOSE i \in DOMAIN str : str[i] = ch /\ \A j \in 1..(i - 1) : str[j] # ch) - 1)
    ELSE None

\* str::rfind(':'): the place of the last colon, counted from 0
RECURSIVE rfind(_, _)
rfind(str, ch) ==
    IF str = <<>> THEN None
    ELSE IF str[Len(str)] = ch THEN Some(Len(str) - 1)
         ELSE rfind(SubSeq(str, 1, Len(str) - 1), ch)

\* str::parse::<usize> of a string of ASCII digits that is not empty: an
\* error when the number is above usize::MAX
parse_usize(digits) ==
    LET n == strip_zeros(digits) IN
    IF Len(n) < Len(USIZE_MAX) \/ (Len(n) = Len(USIZE_MAX) /\ digits_le(n, USIZE_MAX))
    THEN [ok |-> TRUE, value |-> n]
    ELSE [ok |-> FALSE, value |-> <<>>]

\* parse_path_with_line
parse_path_with_line(input) ==
    LET colon_pos == rfind(input, ":")
        suffix == SubSeq(input, colon_pos.v + 2, Len(input))
        line_num == parse_usize(suffix)
    IN  IF /\ colon_pos.some
           /\ suffix # <<>>
           /\ \A i \in DOMAIN suffix : is_ascii_digit(suffix[i])
           /\ line_num.ok
        THEN [path |-> SubSeq(input, 1, colon_pos.v), line |-> Some(line_num.value)]
        ELSE [path |-> input, line |-> None]

MaxPathLen == 3

PathChars == {"a", ":", "5", "0"}

\* suffixes of 20 digits and more, around usize::MAX
LongSuffixes ==
    { <<>>,
      <<":">> \o USIZE_MAX,
      <<":">> \o SubSeq(USIZE_MAX, 1, 19) \o <<"6">>,
      <<":", "0", "0">> \o SubSeq(USIZE_MAX, 1, 19) \o <<"4">>,
      <<":", "9">> \o USIZE_MAX }

PathInputs ==
    {p \o s : p \in UNION {[1..n -> PathChars] : n \in 0..MaxPathLen}, s \in LongSuffixes}

InitPath ==
    /\ AtRest
    /\ call \in [op : {"parse_path_with_line"}, done : {FALSE}, input : PathInputs]

ParsePathWithLine ==
    /\ call.op = "parse_path_with_line"
    /\ ~call.done
    /\ call' = [call EXCEPT !.done = TRUE] @@ [result |-> parse_path_with_line(call.input)]
    /\ UNCHANGED <<clock, db, files, run, prev, last, stdin, stdout, mcp>>

NextPath == ParsePathWithLine

SpecPath == InitPath /\ [][NextPath]_vars

(***************************************************************************)
(* chunk_text (qfs-embed/src/lib.rs).  The text is a sequence of           *)
(* characters; the loop of the function runs one iteration a step.         *)
(***************************************************************************)
\* text[pos..].find(word).map(|i| pos + i).unwrap_or(pos), places counted from 0
find_from(text, pos, word) ==
    LET hits == {i \in pos..(Len(text) - Len(word)) :
                    SubSeq(text, i + 1, i + Len(word)) = word}
    IN  IF hits = {} THEN pos ELSE CHOOSE i \in hits : \A j \in hits : i <= j

\* the scan over split_whitespace: every word with the place it starts at
RECURSIVE words_with_offsets(_, _, _)
words_with_offsets(text, words, pos) ==
    IF words = <<>> THEN <<>> ELSE
    LET start == find_from(text, pos, Head(words))
    IN  <<[start |-> start, word |-> Head(words)]>> \o
        words_with_offsets(text, Tail(words), start + Len(Head(words)))

\* a step of the whole chunk size, whatever the overlap
chunk_step_no_overlap(chunk_size, overlap) == IF chunk_size > 1 THEN chunk_size ELSE 1

\* chunk_size.saturating_sub(overlap).max(1)
chunk_step(chunk_size, overlap) ==
    LET saturating_sub == IF chunk_size > overlap THEN chunk_size - overlap ELSE 0
    IN  IF saturating_sub > 1 THEN saturating_sub ELSE 1

MaxTextLen == 7

ChunkSizes == 0..3

Overlaps == 0..3

Texts == UNION {[1..n -> {" ", "a"}] : n \in 0..MaxTextLen}

InitChunk ==
    /\ AtRest
    /\ call = NoCall

\* chunk_text up to its loop: the early returns, the words, the step
ChunkTextStart(text, chunk_size, overlap) ==
    /\ call = NoCall
    /\ LET words == words_with_offsets(text, split_whitespace(text), 0)
           returns == text = <<>> \/ chunk_size = 0 \/ words = <<>>
       IN  call' = [op |-> "chunk_text", text |-> text, chunk_size |-> chunk_size,
                    overlap |-> overlap,
                    pc |-> IF returns THEN "done" ELSE "loop",
                    done |-> returns,
                    words |-> IF returns THEN <<>> ELSE words,
                    step |-> IF returns THEN 0 ELSE chunk_step(chunk_size, overlap),
                    i |-> 0, chunk_index |-> 0, chunks |-> <<>>]
    /\ UNCHANGED <<clock, db, files, run, prev, last, stdin, stdout, mcp>>

\* one iteration of `while i < words.len()`
ChunkTextLoop ==
    /\ call.op = "chunk_text"
    /\ call.pc = "loop"
    /\ IF call.i >= Len(call.words)
       THEN call' = [call EXCEPT !.pc = "done", !.done = TRUE]
       ELSE LET end == IF call.i + call.chunk_size < Len(call.words)
                       THEN call.i + call.chunk_size ELSE Len(call.words)
                chunk_words == [k \in 1..(end - call.i) |-> call.words[call.i + k].word]
                chunk == [text |-> join(chunk_words, <<" ">>),
                          char_offset |-> call.words[call.i + 1].start,
                          index |-> call.chunk_index]
            IN  call' = [call EXCEPT !.chunks = Append(@, chunk),
                                     !.chunk_index = @ + 1,
                                     !.pc = IF end >= Len(call.words) THEN "done" ELSE "loop",
                                     !.done = end >= Len(call.words),
                                     !.i = IF end >= Len(call.words) THEN @ ELSE @ + call.step]
    /\ UNCHANGED <<clock, db, files, run, prev, last, stdin, stdout, mcp>>

NextChunk ==
    \/ \E text \in Texts, chunk_size \in ChunkSizes, overlap \in Overlaps :
          ChunkTextStart(text, chunk_size, overlap)
    \/ ChunkTextLoop

\* a call that has begun runs on: nothing holds its loop up
SpecChunk == InitChunk /\ [][NextChunk]_vars /\ WF_vars(ChunkTextLoop)

(***************************************************************************)
(* Store: the reads that list, count and look up documents (store/mod.rs). *)
(***************************************************************************)
\* the first characters of the digests, as far as a docid of the model reads
hash_chars(hash) ==
    CASE hash = calculate_hash("x")  -> <<"2", "d", "7", "1", "1", "6", "4">>
      [] hash = calculate_hash("yy") -> <<"e", "f", "9", "0", "d", "9", "c">>
      [] OTHER -> <<>>

\* Store::get_document_by_docid: LIMIT 1 without an order yields any one of
\* the active rows whose hash begins with the docid
get_document_by_docid(d, docid) ==
    LET short_hash == normalize_docid(docid)
        hits == {r \in d.documents :
                    r.active /\ starts_with(hash_chars(r.hash), short_hash.value)}
    IN  IF ~short_hash.ok \/ Len(short_hash.value) < 6 \/ hits = {}
        THEN {[ok |-> FALSE, doc |-> NULL]}
        ELSE {[ok |-> TRUE, doc |-> r] : r \in hits}

\* ORDER BY collection, path on the names of the model
sorts_before(a, b) ==
    LET rank(name) == CASE name = "docs" -> 1 [] name = "notes" -> 2
                        [] name = "a.txt" -> 1 [] name = "b.txt" -> 2
    IN  \/ rank(a.collection) < rank(b.collection)
        \/ a.collection = b.collection /\ rank(a.path) <= rank(b.path)

RECURSIVE by_collection_and_path(_)
by_collection_and_path(rows) ==
    IF rows = {} THEN <<>> ELSE
    LET first == CHOOSE r \in rows : \A s \in rows : sorts_before(r, s)
    IN  <<first>> \o by_collection_and_path(rows \ {first})

\* Store::list_documents
list_documents(d, collection) ==
    by_collection_and_path({r \in d.documents : r.collection = collection /\ r.active})

\* Store::list_all_documents
list_all_documents(d) ==
    by_collection_and_path({r \in d.documents : r.active})

\* count_documents counting the rows whatever their active flag
count_all_rows(d, collection) ==
    IF collection # NULL
    THEN Cardinality({r \in d.documents : r.collection = collection})
    ELSE Cardinality(d.documents)

\* Store::count_documents
count_documents(d, collection) ==
    IF collection # NULL
    THEN Cardinality({r \in d.documents : r.collection = collection /\ r.active})
    ELSE Cardinality({r \in d.documents : r.active})

\* Store::list_files: documents JOIN content, the path LIKE the prefix when
\* one is given
list_files(d, collection, path_prefix) ==
    by_collection_and_path(
        {[collection |-> x[1].collection, path |-> x[1].path, title |-> x[1].title,
          size |-> Len(x[2].content), modified_at |-> x[1].modified_at] :
            x \in {y \in d.documents \X d.content :
                      /\ y[2].hash = y[1].hash
                      /\ y[1].collection = collection
                      /\ y[1].active
                      /\ path_prefix.some => starts_with(chars_of(y[1].path), path_prefix.v)}})

\* Store::search_vector_legacy
search_vector_legacy(d, query_embedding, collection, limit) ==
    LET embeddings == get_all_embeddings_for_search(d, collection)
        scored == sort_by_score(
                    [i \in DOMAIN embeddings |->
                        [doc_id |-> embeddings[i].doc_id,
                         collection |-> embeddings[i].collection,
                         path |-> embeddings[i].path, hash |-> embeddings[i].hash,
                         chunk_index |-> embeddings[i].chunk_index,
                         score |-> cosine_similarity(query_embedding,
                                                     embeddings[i].embedding)]])
    IN  SubSeq(scored, 1, IF limit < Len(scored) THEN limit ELSE Len(scored))

\* the docids and path prefixes the reads are given
DocidInputs ==
    { <<"2", "d", "7", "1", "1", "6">>, <<"#", "e", "f", "9", "0", "d", "9">>,
      <<"\"", "2", "d", "7", "1", "1", "6", "4", "\"">>, <<"e", "f", "9">> }

PathPrefixes == {None, Some(<<"a">>), Some(<<"b">>)}

\* documents are written, deactivated and embedded in any order
NextHide ==
    \/ \E c \in Colls, p \in Paths, b \in Bytes : AddDocument(c, p, b)
    \/ \E c \in Colls, p \in Paths : RemoveDocument(c, p)
    \/ \E b \in Bytes : InsertEmbedding(calculate_hash(b), 0, "u")

SpecHide == Init /\ [][NextHide]_vars

(***************************************************************************)
(* The store's tables.                                                     *)
(***************************************************************************)

\* C1: the FTS index holds a row with rowid r exactly when a document with
\* id r exists and is active, and never two rows with the same rowid.
C1_FtsRowIffActiveDocument ==
    /\ \A f \in db.documents_fts : \E r \in db.documents : r.id = f.rowid /\ r.active
    /\ \A r \in db.documents : r.active => \E f \in db.documents_fts : f.rowid = r.id
    /\ \A f, g \in db.documents_fts : f.rowid = g.rowid => f = g

IsDocumentCall(op) == op \in {"upsert_document", "deactivate_document"}

\* C2: a call of upsert_document or deactivate_document that fails leaves
\* the documents table and the FTS index as they were before the call.
C2_FailedCallChangesNothing ==
    [][(clock' = clock + 1 /\ IsDocumentCall(last'.op) /\ ~last'.ok)
        => (db'.documents = db.documents /\ db'.documents_fts = db.documents_fts)]_vars

\* C3: a run of index_collection that follows an error-free run of the same
\* collection, with no change to the files or the store in between, indexes
\* nothing, skips as many files as the first run scanned, and changes no row.
C3_SecondRunSkipsEverything ==
    /\ [](last.op = "index_collection" /\ last.ok /\ last.repeat.valid
            => /\ last.stats.files_indexed = 0
               /\ last.stats.files_skipped = last.repeat.files_scanned)
    /\ [][(run.pc = "scanning" /\ run.repeat.valid) => db' = db]_vars

C3_Witness ==
    /\ last.op = "index_collection" /\ last.ok /\ last.repeat.valid
    /\ last.stats.files_skipped = 2

DocumentAt(d, collection, path) ==
    CHOOSE r \in d.documents : r.collection = collection /\ r.path = path

\* C4: there is at most one document row per (collection, path); an upsert
\* on an existing (collection, path) keeps the row's id and created_at,
\* replaces hash, title and file_type, and leaves the row active.
C4_UpsertKeepsTheRow ==
    /\ [](\A r, q \in db.documents :
            (r.collection = q.collection /\ r.path = q.path) => r = q)
    /\ [][\A c \in Colls, p \in Paths, in \in DocInputs :
            (UpsertDocument(c, p, in) /\ RowState(db, c, p) # "absent")
            => /\ RowState(db', c, p) = "active"
               /\ DocumentAt(db', c, p).id = DocumentAt(db, c, p).id
               /\ DocumentAt(db', c, p).created_at = DocumentAt(db, c, p).created_at
               /\ DocumentAt(db', c, p).hash = in.hash
               /\ DocumentAt(db', c, p).title = in.title
               /\ DocumentAt(db', c, p).file_type = in.file_type]_vars

C4_Witness ==
    /\ last.op = "upsert_document" /\ last.ok /\ last.was = "inactive"
    /\ DocumentAt(db, last.collection, last.path).active
    /\ DocumentAt(db, last.collection, last.path).created_at
          < DocumentAt(db, last.collection, last.path).modified_at

\* C5: the hash of each document row is the key of a content row, and each
\* content row's size is the length of its bytes.
C5_DocumentHashHasContent ==
    /\ \A r \in db.documents : content_exists(db, r.hash)
    /\ \A k \in db.content : k.size = Len(k.content)

\* C6: there is at most one content row per hash, and insert_content with a
\* hash already stored succeeds and leaves the content table as it was.
C6_DuplicateInsertIsNoOp ==
    /\ [](\A k, m \in db.content : k.hash = m.hash => k = m)
    /\ [][\A in \in ContentInputs :
            (InsertContent(in) /\ content_exists(db, in.hash))
            => (last'.ok /\ db'.content = db.content)]_vars

C6_Witness ==
    /\ last.op = "insert_content" /\ last.ok /\ last.existed
    /\ \E k \in db.content :
          k.hash = last.hash /\ k.content # last.data /\ k.created_at < clock - 1

\* C7: a file whose reading or storing fails adds exactly one to errors and
\* nothing to the other counters, the loop goes on to the remaining files,
\* and the run returns its statistics once every scanned file was processed.
C7_FileErrorsAreCounted ==
    /\ [](last.op = "index_collection" /\ last.ok
            => /\ last.seen_paths = last.scanned
               /\ last.stats.files_scanned = Cardinality(last.scanned)
               /\ last.stats.files_scanned =
                     last.stats.files_indexed + last.stats.files_skipped
                       + last.stats.errors)
    /\ [][\A p \in Paths, ft \in IndexFaults \cup {NoFault} :
            (run.pc = "scanning" /\ IndexFileCall(p, ft) /\ ~index_file(db, files, run.name, p, clock, ft).ok)
            => /\ run'.pc = "scanning"
               /\ run'.todo = run.todo \ {p}
               /\ run'.stats.errors = run.stats.errors + 1
               /\ run'.stats.files_indexed = run.stats.files_indexed
               /\ run'.stats.files_skipped = run.stats.files_skipped]_vars

C7_Witness ==
    /\ last.op = "index_collection" /\ last.ok
    /\ last.stats.errors = 1 /\ last.stats.files_indexed = 1
    /\ db.documents # {}

\* C8: after remove_collection(name) succeeds there is no collection row and
\* no document row, active or not, for name, and the rows of every other
\* collection are as before.
C8_RemoveCollectionCascades ==
    [][\A name \in Colls :
         (RemoveCollection(name) /\ last'.ok)
         => /\ ~ \E r \in db'.collections : r.name = name
            /\ ~ \E r \in db'.documents : r.collection = name
            /\ {r \in db'.collections : r.name # name}
                  = {r \in db.collections : r.name # name}
            /\ {r \in db'.documents : r.collection # name}
                  = {r \in db.documents : r.collection # name}]_vars

C8_Witness ==
    /\ last.op = "remove_collection" /\ last.ok /\ last.had_row /\ last.had_docs
    /\ \E r \in db.documents : r.collection # last.name

(***************************************************************************)
(* The MCP server loop.                                                    *)
(***************************************************************************)
\* the input lines, by position, that hold something besides white space
NonBlankLines(n) ==
    {i \in 1..n : stdin[i].read = "line" /\ stdin[i].doc # NoText}

\* the positions of the input lines that have a response line on stdout
Answered == {stdout[k].for : k \in 1..Len(stdout)}

InArrivalOrder ==
    \A j, k \in 1..Len(stdout) : j < k => stdout[j].for < stdout[k].for

\* C9 as stated: at every moment the response lines written are exactly one
\* for each non-empty input line read so far (the one being answered
\* excepted), in arrival order, none for a blank line, and the loop has
\* stopped only because a read returned end-of-file or a read error.
C9_OneResponsePerLine ==
    LET settled == IF mcp.pc = "write" THEN mcp.pos - 1 ELSE mcp.pos IN
    /\ Answered = NonBlankLines(settled)
    /\ InArrivalOrder
    /\ mcp.pc = "done" => mcp.stop \in {"eof", "read_error"}

\* C9 as the code has it: the response lines written are exactly one for
\* each non-empty input line read so far, in arrival order and none for a
\* blank line, except the line being answered and a line whose response could
\* not be written; a line is read only when every earlier non-empty line has
\* its response; the loop stops with success when a read returns end-of-file
\* or a read error, and with an error when writing a response fails.
C9_OneResponsePerLineWritten ==
    /\ [](LET settled == IF mcp.pc = "write" \/ mcp.stop = "write_error"
                         THEN mcp.pos - 1 ELSE mcp.pos IN
          /\ Answered = NonBlankLines(settled)
          /\ InArrivalOrder
          /\ mcp.pc = "done" => mcp.stop \in {"eof", "read_error", "write_error"}
          /\ mcp.stop = "eof" => mcp.pos = Len(stdin) /\ mcp.result = "ok"
          /\ mcp.stop = "read_error" => stdin[mcp.pos] = ReadError /\ mcp.result = "ok"
          /\ mcp.stop = "write_error" => mcp.pos \in NonBlankLines(mcp.pos) /\ mcp.result = "err"
          /\ mcp.pc # "done" => \A i \in 1..mcp.pos : stdin[i] # ReadError)
    /\ [][/\ mcp'.pos > mcp.pos => mcp.pc = "read" /\ Answered = NonBlankLines(mcp.pos)
          /\ (mcp.pc = "read" /\ mcp.pos = Len(stdin)) => mcp'.pc = "done"]_vars

\* three lines, one of them white space only, answered by two responses,
\* then end-of-file
C9_Witness ==
    /\ mcp.pc = "done" /\ mcp.stop = "eof"
    /\ Len(stdin) = 3 /\ Len(stdout) = 2
    /\ \E i \in 1..3 : stdin[i] = Line(2, NoText)

\* a response could not be written: the line has no response and the loop
\* has stopped
C9_WriteFailed ==
    /\ mcp.pc = "done" /\ mcp.stop = "write_error"
    /\ mcp.pos \notin Answered

\* C10: the response line written for an input line that cannot be parsed as
\* a JSON-RPC request carries error code -32700 and an id member whose value
\* is null, and the loop goes on to read the line that follows.
C10_ParseErrorHasNullId ==
    \A k \in 1..Len(stdout) :
        stdin[stdout[k].for].doc \in BadDocs
            => /\ "error" \in DOMAIN stdout[k].line.m
               /\ stdout[k].line.m["error"].m["code"] = JNum(-32700)
               /\ "id" \in DOMAIN stdout[k].line.m
               /\ stdout[k].line.m["id"] = JNull
               /\ (mcp.pos = stdout[k].for /\ mcp.pos < Len(stdin)) => mcp.pc = "read"

(***************************************************************************)
(* McpServer::handle_request.                                              *)
(***************************************************************************)
\* C11: the response of handle_request has a result and no error for the
\* methods initialize, tools/list, ping and notifications/initialized, has
\* error code -32601 for every method other than those and tools/call, and
\* always has exactly one of result and error and the id of its request.
C11_HandleRequestAnswers ==
    (call.op = "handle_request" /\ call.done) =>
        LET rq == call.request
            rs == call.response
        IN  /\ rq.method \in {"initialize", "tools/list", "ping", "notifications/initialized"}
                 => rs.result.some /\ ~rs.error.some
            /\ rq.method \notin {"initialize", "tools/list", "ping",
                                 "notifications/initialized", "tools/call"}
                 => rs.error.some /\ rs.error.v.code = -32601
            /\ rs.result.some # rs.error.some
            /\ rs.id = rq.id

\* the acknowledgment of notifications/initialized, with the request's id
C11_Witness ==
    /\ call.op = "handle_request" /\ call.done
    /\ call.request.method = "notifications/initialized"
    /\ call.request.id = Some(JNum(1))
    /\ call.response.result = Some(JObj(<<>>))
    /\ call.response.id = Some(JNum(1))

(***************************************************************************)
(* Path contexts.                                                          *)
(***************************************************************************)
\* the rows of a set with the longest path_prefix
LongestPrefix(rows) ==
    {r \in rows : \A q \in rows : Len(q.path_prefix) <= Len(r.path_prefix)}

\* the answer the claim gives: the context of a longest matching row scoped
\* to the collection, else of a longest matching global row, else none
IsLongestMatch(result, scoped, global) ==
    IF scoped # {} THEN result.some /\ \E r \in LongestPrefix(scoped) : result.v = r.context
    ELSE IF global # {} THEN result.some /\ \E r \in LongestPrefix(global) : result.v = r.context
    ELSE result = None

\* C16 as stated: find_context_for_path(C, p) returns the context of the
\* longest path_prefix that is a prefix of the normalized p among the rows
\* scoped to C, the longest matching global row only when no row scoped to C
\* matches, and none when no row matches.
C16_LongestPrefixWins ==
    call.op = "find_context_for_path" =>
        LET normalized == IF call.file_path[1] = "/" THEN call.file_path
                          ELSE <<"/">> \o call.file_path
            matches(r) == /\ Len(r.path_prefix) <= Len(normalized)
                          /\ \A i \in 1..Len(r.path_prefix) : r.path_prefix[i] = normalized[i]
        IN  IsLongestMatch(call.result,
                {r \in db.path_contexts : r.collection = call.collection /\ matches(r)},
                {r \in db.path_contexts : r.collection = NULL /\ matches(r)})

\* C16 as the code has it: a row matches when its path_prefix is a prefix of
\* the normalized p or equals the normalized p followed by slashes; the rest
\* is as stated.
C16_LongestMatchWins ==
    call.op = "find_context_for_path" =>
        LET normalized == IF call.file_path[1] = "/" THEN call.file_path
                          ELSE <<"/">> \o call.file_path
            isPrefix(r) == /\ Len(r.path_prefix) <= Len(normalized)
                           /\ \A i \in 1..Len(r.path_prefix) : r.path_prefix[i] = normalized[i]
            isPathAndSlashes(r) ==
                           /\ Len(r.path_prefix) > Len(normalized)
                           /\ \A i \in 1..Len(normalized) : r.path_prefix[i] = normalized[i]
                           /\ \A i \in (Len(normalized) + 1)..Len(r.path_prefix) :
                                 r.path_prefix[i] = "/"
            matches(r) == isPrefix(r) \/ isPathAndSlashes(r)
        IN  IsLongestMatch(call.result,
                {r \in db.path_contexts : r.collection = call.collection /\ matches(r)},
                {r \in db.path_contexts : r.collection = NULL /\ matches(r)})

\* a longer and a shorter row of the collection both match: the longer wins
C16_Witness ==
    /\ call.op = "find_context_for_path"
    /\ call.collection = "docs"
    /\ call.file_path = <<"g", "/", "a">>
    /\ \E r, q \in db.path_contexts :
          /\ r.collection = "docs" /\ r.path_prefix = <<"/", "g", "/">>
          /\ q.collection = "docs" /\ q.path_prefix = <<"/">>
          /\ r.context # q.context
          /\ call.result = Some(r.context)

\* the row "/g/" answers for the path "/g", of which it is no prefix
C16_TrailingSlashRow ==
    /\ call.op = "find_context_for_path"
    /\ call.file_path = <<"g">>
    /\ call.result.some
    /\ \A r \in db.path_contexts : r.path_prefix = <<"/", "g", "/">>

\* C17: get_all_contexts_for_path(C, p) returns the contexts of exactly the
\* rows, global or scoped to C, whose path_prefix is a prefix of the
\* normalized p, every global row before every row scoped to C and, in each
\* group, shorter prefixes before longer ones.
C17_AllContextsGeneralFirst ==
    call.op = "get_all_contexts_for_path" =>
        LET normalized == IF call.file_path[1] = "/" THEN call.file_path
                          ELSE <<"/">> \o call.file_path
            matching == {r \in db.path_contexts :
                            /\ r.collection \in {NULL, call.collection}
                            /\ Len(r.path_prefix) <= Len(normalized)
                            /\ \A i \in 1..Len(r.path_prefix) : r.path_prefix[i] = normalized[i]}
        IN  \E listed \in [1..Cardinality(matching) -> matching] :
               /\ \A r \in matching : \E i \in DOMAIN listed : listed[i] = r
               /\ \A i, j \in DOMAIN listed : i < j =>
                     /\ listed[j].collection = NULL => listed[i].collection = NULL
                     /\ (listed[i].collection = listed[j].collection)
                           => Len(listed[i].path_prefix) <= Len(listed[j].path_prefix)
               /\ Len(call.result) = Len(listed)
               /\ \A i \in DOMAIN listed : call.result[i] = listed[i].context

\* a global row listed before a row of the collection
C17_Witness ==
    /\ call.op = "get_all_contexts_for_path"
    /\ call.collection = "docs"
    /\ call.file_path = <<"g", "/", "a">>
    /\ Len(call.result) = 2
    /\ call.result[1] # call.result[2]
    /\ \E r, q \in db.path_contexts :
          /\ r.collection = NULL /\ r.path_prefix = <<"/", "g">> /\ r.context = call.result[1]
          /\ q.collection = "docs" /\ q.path_prefix = <<"/">> /\ q.context = call.result[2]

\* C18: there is at most one context row for each (collection, path_prefix)
\* pair, the pairs without a collection included, and set_context for a pair
\* that has a row replaces the row's text and adds no row.
C18_OneRowPerPair ==
    /\ \A r, q \in db.path_contexts :
          (r.collection = q.collection /\ r.path_prefix = q.path_prefix) => r = q
    /\ (last.op = "set_context" /\ last.existed) =>
          /\ Cardinality(db.path_contexts) = last.rows
          /\ \A r \in db.path_contexts :
                (r.collection = last.collection /\ r.path_prefix = last.path_prefix)
                    => r.context = last.context

(***************************************************************************)
(* Store::multi_get.                                                       *)
(***************************************************************************)

\* the two forms of a record of multi_get
IsSkippedRecord(r, max_bytes) ==
    r.skipped /\ r.skip_reason.some /\ ~r.content.some /\ r.size > max_bytes

IsFetchedRecord(r, max_bytes) ==
    ~r.skipped /\ r.content.some /\ ~r.skip_reason.some /\ r.size <= max_bytes

\* C19: every record multi_get returns is either skipped, with a skip
\* reason, no content and a size greater than max_bytes, or not skipped, with
\* content, no skip reason and a size not greater than max_bytes.
C19_RecordsAreSkippedOrFetched ==
    (call.op = "multi_get" /\ call.result.ok) =>
        \A i \in DOMAIN call.result.results :
            LET r == call.result.results[i] IN
            IsSkippedRecord(r, call.max_bytes) # IsFetchedRecord(r, call.max_bytes)

\* one call returns a record of each form
C19_Witness ==
    /\ call.op = "multi_get"
    /\ call.result.ok
    /\ \E i, j \in DOMAIN call.result.results :
          /\ IsSkippedRecord(call.result.results[i], call.max_bytes)
          /\ IsFetchedRecord(call.result.results[j], call.max_bytes)

(***************************************************************************)
(* ensure_schema.                                                          *)
(***************************************************************************)

\* schema_version is recorded in the database with the value v
VersionRecorded(d, v) ==
    /\ d.index_state.exists
    /\ \E r \in d.index_state.rows : r.key = "schema_version" /\ r.value = i64_to_string(v)

\* index_state before the call records no version or one not above the current
NotAboveCurrent(state) ==
    \/ ~state.exists
    \/ \A r \in state.rows : r.key = "schema_version" => cast_integer(r.value) <= SCHEMA_VERSION

\* C20: after ensure_schema succeeds on a database in which schema_version
\* is not recorded or is recorded with a value not above the current version,
\* the stored schema_version is SCHEMA_VERSION and a further ensure_schema
\* changes nothing.
C20_EnsureSchemaRecordsVersion ==
    (last.op = "ensure_schema" /\ last.ok /\ NotAboveCurrent(last.before)) =>
        /\ VersionRecorded(db, SCHEMA_VERSION)
        /\ ensure_schema(db, 0) = [db |-> db, ok |-> TRUE]

\* the same for the databases that have no index_state table or record a
\* version: every one but the database whose index_state has no version row
C20_RecordsVersionUnlessRowMissing ==
    (last.op = "ensure_schema" /\ last.ok /\ NotAboveCurrent(last.before)
        /\ last.before # TableOf({})) =>
        /\ VersionRecorded(db, SCHEMA_VERSION)
        /\ ensure_schema(db, 0) = [db |-> db, ok |-> TRUE]

(***************************************************************************)
(* The searcher.                                                           *)
(***************************************************************************)

\* the raw score the FTS query of the call gave the document
RawScoreOf(id) ==
    (CHOOSE f \in {call.fts_rows[i] : i \in DOMAIN call.fts_rows} : f.rowid = id).bm25_score

\* the results of a BM25 search come in ascending order of raw score
C12_RawScoresAscend ==
    (call.op = "search_bm25" /\ call.result.ok) =>
        \A i, j \in DOMAIN call.result.results :
            i < j => RawScoreOf(call.result.results[i].id)
                        <= RawScoreOf(call.result.results[j].id)

\* C12: the results of a BM25 search come in ascending order of raw score,
\* and every result has a normalized score at least that of the result
\* after it.
C12_NormalizedScoresDescend ==
    /\ C12_RawScoresAscend
    /\ (call.op = "search_bm25" /\ call.result.ok) =>
          \A i \in DOMAIN call.result.results :
              i < Len(call.result.results) =>
                  at_least(call.result.results[i].score, call.result.results[i + 1].score)

\* the two rankings a hybrid search fuses
FusedBm25 ==
    search_bm25(db, call.query, [call.options EXCEPT !.limit = @ * 2], call.fts_rows).results

FusedVector ==
    search_vector_with_embedding(db, call.query_embedding,
                                 [call.options EXCEPT !.limit = @ * 2]).results

\* what one ranking may add to a document: 1 / (60 + rank) for a rank, from
\* 1, at which the ranking holds the document, nothing when it holds it nowhere
TermsOf(ranking, id) ==
    IF \E i \in DOMAIN ranking : ranking[i].id = id
    THEN {RrfScale(60) \div (60 + i) : i \in {i \in DOMAIN ranking : ranking[i].id = id}}
    ELSE {0}

\* C13: the fused score of every document a hybrid search returns is the
\* sum of 1 / (60 + rank) over the BM25 ranking and the vector ranking that
\* hold the document, one term at most from each ranking.
C13_FusedScoreIsOneTermPerRanking ==
    (call.op = "search_hybrid_with_embedding" /\ call.result.ok) =>
        \A i \in DOMAIN call.result.results :
            LET r == call.result.results[i] IN
            \E b \in TermsOf(FusedBm25, r.id), v \in TermsOf(FusedVector, r.id) :
                r.score = Fraction(b + v, RrfScale(60))

\* no active document of the scope has an embedding
NoActiveEmbedding(d, collection) ==
    ~\E r \in d.documents, e \in d.embeddings :
        /\ r.active
        /\ r.hash = e.hash
        /\ collection # NULL => r.collection = collection

VectorSearches ==
    {"search_vector", "search_vector_with_embedding", "search_hybrid",
     "search_hybrid_with_embedding"}

\* C14: a vector or hybrid search over a scope in which no active document
\* has an embedding fails with EmbeddingsRequired and returns no results.
C14_EmbeddingsRequired ==
    (call.op \in VectorSearches /\ NoActiveEmbedding(db, call.options.collection)) =>
        call.result = [ok |-> FALSE, error |-> "EmbeddingsRequired", results |-> <<>>]

\* the same for the searches that are given the embedding of the query and
\* for the searches of one collection
C14_EmbeddingsRequiredInCollection ==
    (/\ call.op \in VectorSearches
     /\ NoActiveEmbedding(db, call.options.collection)
     /\ \/ call.op \in {"search_vector_with_embedding", "search_hybrid_with_embedding"}
        \/ call.options.collection # NULL) =>
        call.result = [ok |-> FALSE, error |-> "EmbeddingsRequired", results |-> <<>>]

(***************************************************************************)
(* sanitize_fts_query.                                                     *)
(***************************************************************************)

\* the characters of the class [A-Za-z0-9_-]
is_ascii_word(c) == c \in {"a", "7", "_", "-"}

\* a BM25 search that returned nothing and called no function of the store
ReturnedNothingUntouched ==
    call.result = [ok |-> TRUE, results |-> <<>>, store_calls |-> 0]

\* C15 as stated: a BM25 search whose query holds no character of the class
\* [A-Za-z0-9_-] returns an empty list as a success and calls no function of
\* the store.
C15_NoAsciiWordCharNoSearch ==
    (call.op = "search_bm25" /\ \A i \in DOMAIN call.query : ~is_ascii_word(call.query[i]))
        => ReturnedNothingUntouched

\* C15: a BM25 search whose query holds no letter or digit of any script, no
\* "_" and no "-" returns an empty list as a success and calls no function
\* of the store.
C15_NoWordCharNoSearch ==
    (call.op = "search_bm25" /\ \A i \in DOMAIN call.query :
        ~(is_alphanumeric(call.query[i]) \/ call.query[i] \in {"_", "-"}))
        => ReturnedNothingUntouched

\* a query of "?" between blanks is searched for on a store with a document
C15_Witness ==
    /\ call.op = "search_bm25"
    /\ call.query = <<" ", "?", " ">>
    /\ db.documents # {}
    /\ ReturnedNothingUntouched

\* C29: a context find_context_for_path(C, p) returns is an element of
\* get_all_contexts_for_path(C, p), and when get_all_contexts_for_path(C, p)
\* is not empty find_context_for_path(C, p) returns one of its elements.
C29_FoundContextIsListed ==
    call.op = "find_and_get_all_contexts" =>
        /\ call.found.some => \E i \in DOMAIN call.all : call.all[i] = call.found.v
        /\ call.all # <<>> =>
              call.found.some /\ \E i \in DOMAIN call.all : call.all[i] = call.found.v

\* the same for the stores no path_prefix of which ends with a slash after
\* other characters
C29_FoundIsListedWithoutTrailingSlash ==
    (/\ call.op = "find_and_get_all_contexts"
     /\ \A r \in db.path_contexts :
           r.path_prefix = <<"/">> \/ r.path_prefix[Len(r.path_prefix)] # "/") =>
        /\ call.found.some => \E i \in DOMAIN call.all : call.all[i] = call.found.v
        /\ call.all # <<>> =>
              call.found.some /\ \E i \in DOMAIN call.all : call.all[i] = call.found.v

(***************************************************************************)
(* Reciprocal rank fusion.                                                 *)
(***************************************************************************)

\* the ranking holds a result of the document
Ranks(ranking, id) == \E i \in DOMAIN ranking : ranking[i].id = id

\* C25: hybrid search returns at most limit results, no document id twice,
\* in non-increasing order of fused score, and a document both searches
\* found keeps what its BM25 result says of it.
C25_FusedResultsKeepBm25 ==
    (call.op = "fusion" /\ call.done) =>
        /\ Len(call.results) <= call.limit
        /\ \A i, j \in DOMAIN call.results :
              /\ call.results[i].id = call.results[j].id => i = j
              /\ i < j => call.results[i].score.num >= call.results[j].score.num
        /\ \A i \in DOMAIN call.results : \A j \in DOMAIN call.bm25 :
              (call.bm25[j].id = call.results[i].id /\ Ranks(call.vector, call.results[i].id))
                  => [call.results[i] EXCEPT !.score = call.bm25[j].score] = call.bm25[j]

\* a document of both rankings is returned, the vector ranking holding two
\* of its chunks before the BM25 ranking's other document
C25_Witness ==
    /\ call.op = "fusion"
    /\ call.done
    /\ call.limit = 2
    /\ Len(call.results) = 2
    /\ call.bm25 = <<Bm25Result(2), Bm25Result(1)>>
    /\ call.vector = <<VectorResult(1, 0), VectorResult(1, 1)>>
    /\ call.results[1].id = 1

\* C26: with k = 60 a document of both rankings has a fused score strictly
\* above that of every document of one ranking only.
C26_BothRankingsBeatOne ==
    (call.op = "fusion" /\ call.done) =>
        \A i, j \in DOMAIN call.fused :
            (/\ Ranks(call.bm25, call.fused[i].id) /\ Ranks(call.vector, call.fused[i].id)
             /\ Ranks(call.bm25, call.fused[j].id) # Ranks(call.vector, call.fused[j].id))
                => call.fused[i].score.num > call.fused[j].score.num

\* the same for the vector rankings that hold one chunk of a document at most
C26_BothBeatOneWithoutChunks ==
    (/\ call.op = "fusion" /\ call.done
     /\ \A i, j \in DOMAIN call.vector : call.vector[i].id = call.vector[j].id => i = j) =>
        \A i, j \in DOMAIN call.fused :
            (/\ Ranks(call.bm25, call.fused[i].id) /\ Ranks(call.vector, call.fused[i].id)
             /\ Ranks(call.bm25, call.fused[j].id) # Ranks(call.vector, call.fused[j].id))
                => call.fused[i].score.num > call.fused[j].score.num

\* C30: for one store, query, query embedding and limit, hybrid search
\* returns one sequence of results, equal fused scores or not.
C30_HybridSearchIsDeterministic ==
    (call.op = "search_hybrid_with_embedding" /\ call.result.ok) =>
        \A other \in search_hybrid_with_embedding(db, call.query, call.query_embedding,
                                                  call.options, call.fts_rows) :
            other = call.result

(***************************************************************************)
(* Searches in mode vector and hybrid.                                     *)
(***************************************************************************)
\* the scope of a search holds an embedding: any embedding when the search
\* names no collection, an embedding of the content of an active document
\* of the collection when it names one
ScopeHasEmbeddings(d, collection) ==
    IF collection = NULL THEN d.embeddings # {}
    ELSE \E r \in d.documents, e \in d.embeddings :
            r.active /\ r.collection = collection /\ r.hash = e.hash

\* the call is one of a search tool in mode vector or hybrid
IsVectorToolCall ==
    /\ call.op = "handle_tool_call"
    /\ \/ call.tool_name = "qfs_vsearch"
       \/ /\ call.tool_name = "qfs_query"
          /\ call.arguments.mode.some
          /\ call.arguments.mode.v \in {"vector", "hybrid"}

C22_HashAndQuotesAreIgnored ==
    (call.op = "normalize_docid" /\ call.done) =>
        /\ call.plain.ok /\ call.hashed.ok /\ call.quoted.ok
        /\ call.hashed.value = call.plain.value
        /\ call.quoted.value = call.plain.value

\* the same for the docids that hold neither a space, a quote nor a #
C22_IgnoredAroundPlainDocids ==
    (/\ call.op = "normalize_docid"
     /\ call.done
     /\ \A i \in DOMAIN call.docid : call.docid[i] = "a") =>
        /\ call.plain.ok /\ call.hashed.ok /\ call.quoted.ok
        /\ call.hashed.value = call.plain.value
        /\ call.quoted.value = call.plain.value

\* the call on a lone quote panics
C22_NeverAborts ==
    (call.op = "normalize_docid" /\ call.done) => call.plain.ok

(***************************************************************************)
(* parse_path_with_line.                                                   *)
(***************************************************************************)
\* the places of the colons of a string
ColonsOf(str) == {i \in DOMAIN str : str[i] = ":"}

\* the text after the last colon of a string that has one
AfterLastColon(str) ==
    LET last_colon == CHOOSE i \in ColonsOf(str) : \A j \in ColonsOf(str) : j <= i
    IN  [before |-> SubSeq(str, 1, last_colon - 1),
         after |-> SubSeq(str, last_colon + 1, Len(str))]

\* the text after the last colon is a string of decimal digits, not empty
HasLineSuffix(str) ==
    /\ ColonsOf(str) # {}
    /\ AfterLastColon(str).after # <<>>
    /\ \A i \in DOMAIN AfterLastColon(str).after :
          AfterLastColon(str).after[i] \in {"0", "1", "2", "3", "4", "5", "6", "7", "8", "9"}

\* the number a string of digits denotes, as its digits without leading zeros
RECURSIVE Denoted(_)
Denoted(digits) ==
    IF Len(digits) > 1 /\ digits[1] = "0"
    THEN Denoted(SubSeq(digits, 2, Len(digits))) ELSE digits

\* the number is usize::MAX at most: it has fewer digits, or as many and in
\* the first place they differ a smaller one
FitsUsize(n) ==
    \/ Len(n) < 20
    \/ /\ Len(n) = 20
       /\ \A i \in 1..20 :
             (\A j \in 1..(i - 1) : n[j] = USIZE_MAX[j]) =>
                 digit_value(n[i]) <= digit_value(USIZE_MAX[i])

\* C23: parse_path_with_line returns the text before the last colon and the
\* number n exactly when the text after the last colon is a string of
\* decimal digits, not empty, that denotes n; in every other case it
\* returns its input and no line.
C23_LineSuffixIsStripped ==
    (call.op = "parse_path_with_line" /\ call.done) =>
        call.result =
            IF HasLineSuffix(call.input)
            THEN [path |-> AfterLastColon(call.input).before,
                  line |-> Some(Denoted(AfterLastColon(call.input).after))]
            ELSE [path |-> call.input, line |-> None]

\* C23, for the numbers a usize holds: a suffix of digits that denotes a
\* number above usize::MAX is left in the path.
C23_LineSuffixOfUsizeIsStripped ==
    (call.op = "parse_path_with_line" /\ call.done) =>
        call.result =
            IF /\ HasLineSuffix(call.input)
               /\ FitsUsize(Denoted(AfterLastColon(call.input).after))
            THEN [path |-> AfterLastColon(call.input).before,
                  line |-> Some(Denoted(AfterLastColon(call.input).after))]
            ELSE [path |-> call.input, line |-> None]

\* a suffix is stripped from a path that holds another colon, and a suffix
\* above usize::MAX is kept
C23_Witness ==
    /\ call.op = "parse_path_with_line"
    /\ call.done
    /\ call.result.line.some
    /\ ColonsOf(call.result.path) # {}

C23_WitnessKept ==
    /\ call.op = "parse_path_with_line"
    /\ call.done
    /\ HasLineSuffix(call.input)
    /\ ~call.result.line.some

(***************************************************************************)
(* chunk_text.                                                             *)
(***************************************************************************)
\* the tokens of a text: its longest runs of characters that are no white
\* space, from left to right
TokenStarts(text) ==
    {i \in DOMAIN text : text[i] # " " /\ (i = 1 \/ text[i - 1] = " ")}

TokenAt(text, i) ==
    LET e == CHOOSE e \in i..Len(text) :
                 /\ \A k \in i..e : text[k] # " "
                 /\ e = Len(text) \/ text[e + 1] = " "
    IN  SubSeq(text, i, e)

RECURSIVE TokensFrom(_, _)
TokensFrom(text, starts) ==
    IF starts = {} THEN <<>> ELSE
    LET i == CHOOSE i \in starts : \A j \in starts : i <= j
    IN  <<TokenAt(text, i)>> \o TokensFrom(text, starts \ {i})

Tokens(text) == TokensFrom(text, TokenStarts(text))

\* tokens from..to written with one space between them
RECURSIVE Window(_, _, _)
Window(tokens, from, to) ==
    IF from > to THEN <<>>
    ELSE IF from = to THEN tokens[from]
    ELSE tokens[from] \o <<" ">> \o Window(tokens, from + 1, to)

\* the chunks of a finished call are the windows the claim describes
ChunksAreWindows ==
    LET tokens == Tokens(call.text)
        n == Len(tokens)
        size == call.chunk_size
        step == IF size - call.overlap > 1 THEN size - call.overlap ELSE 1
        chunks == call.chunks
        last_of(j) == IF j * step + size < n THEN j * step + size ELSE n
    IN  /\ \A j \in 0..(Len(chunks) - 1) :
              /\ chunks[j + 1].index = j
              /\ j * step < n
              /\ chunks[j + 1].text = Window(tokens, j * step + 1, last_of(j))
        /\ \A t \in 1..n :
              \E j \in 0..(Len(chunks) - 1) : j * step < t /\ t <= last_of(j)
        /\ chunks # <<>> => last_of(Len(chunks) - 1) = n

\* C21: for every text, every chunk_size of 1 and more and every overlap,
\* chunk_text returns, and its chunks have the indices 0, 1, 2, ...; chunk j
\* is the window of up to chunk_size tokens that starts at token
\* j * max(1, chunk_size - overlap); every token lies in a chunk and the
\* last chunk ends at the last token.
C21_ChunksAreSteppedWindows ==
    /\ [](call.op = "chunk_text" /\ call.done /\ call.chunk_size >= 1 => ChunksAreWindows)
    /\ (call.op = "chunk_text") ~> (call.op = "chunk_text" /\ call.done)

\* a call whose overlap is the chunk size at least, whose windows share
\* tokens, and that returns three chunks and more
C21_Witness ==
    /\ call.op = "chunk_text"
    /\ call.done
    /\ call.chunk_size >= 2
    /\ call.overlap >= call.chunk_size
    /\ Len(call.chunks) >= 3

(***************************************************************************)
(* What a run of index_collection leaves for the files it scanned.         *)
(***************************************************************************)
\* the file has an active document at its path with the digest of the
\* bytes, and the row of that document in the index holds their parsed body
IndexedAs(d, collection, path, bytes) ==
    \E r \in d.documents :
        /\ r.collection = collection /\ r.path = path /\ r.active
        /\ bytes \in Bytes
        /\ r.hash = calculate_hash(bytes)
        /\ \E f \in d.documents_fts :
              f.rowid = r.id /\ f.body = parse_file(path, bytes).body

\* the step is the iteration of the scan loop for the file, and it counts
\* no error
ScannedWithoutError(path) ==
    /\ run.pc = "scanning"
    /\ path \in run.todo
    /\ path \notin run'.todo
    /\ run'.stats.errors = run.stats.errors

\* C24: a file that index_collection scans and does not count as an error
\* has, from its iteration to the end of the run, an active document at its
\* relative path with the SHA-256 of the bytes read, and the FTS row of
\* that document holds the body parsed from those bytes.
C24_ScannedFilesAreIndexed ==
    [][\A p \in Paths :
          /\ ScannedWithoutError(p) => IndexedAs(db', run.name, p, files[p])
          /\ (/\ run.pc = "scanning"
              /\ run'.pc = "scanning"
              /\ p \in run.seen_paths
              /\ IndexedAs(db, run.name, p, files[p])) =>
                 IndexedAs(db', run.name, p, files[p])]_vars

\* the same at the end of a run that counted no error at all
C24_RunWithoutErrorIndexesAll ==
    (last.op = "index_collection" /\ last.ok /\ run.pc = "idle" /\ last.stats.errors = 0) =>
        \A p \in last.scanned : IndexedAs(db, last.name, p, files[p])

(***************************************************************************)
(* A deactivated document is hidden from the reads.                        *)
(***************************************************************************)
\* a sequence of rows holds one of the document
Holds(rows, collection, path) ==
    \E i \in DOMAIN rows : rows[i].collection = collection /\ rows[i].path = path

\* one of the reads returns the document
ReturnedBySomeRead(d, collection, path) ==
    \/ get_document(d, collection, path).ok
    \/ \E docid \in DocidInputs :
          \E got \in get_document_by_docid(d, docid) :
              got.ok /\ got.doc.collection = collection /\ got.doc.path = path
    \/ Holds(list_documents(d, collection), collection, path)
    \/ Holds(list_all_documents(d), collection, path)
    \/ \E prefix \in PathPrefixes : Holds(list_files(d, collection, prefix), collection, path)
    \/ \E fts_rows \in FtsOutcomes(d), scope \in {NULL, collection}, limit \in {1, 3} :
          Holds(store_search_bm25(d, <<"a">>, scope, limit, TRUE, fts_rows), collection, path)
    \/ \E pattern \in MultiGetPatterns, order \in Arrangements(active_with_content(d)),
          max_bytes \in MaxBytesValues :
          LET got == multi_get(d, pattern, max_bytes, None, order) IN
          \E i \in DOMAIN got.results :
              got.results[i].path = full_path_of(collection, path)
    \/ \E e \in EmbeddingVectors, scope \in {NULL, collection}, limit \in {1, 3} :
          Holds(search_vector_legacy(d, e, scope, limit), collection, path)

\* count_documents counts the documents get_document returns, the document
\* left aside
CountedWithout(d, collection, path) ==
    /\ count_documents(d, collection) =
          Cardinality({p \in Paths \ {path} : get_document(d, collection, p).ok})
    /\ count_documents(d, NULL) =
          Cardinality({x \in Colls \X Paths :
                          x # <<collection, path>> /\ get_document(d, x[1], x[2]).ok})

Hidden(d, collection, path) ==
    ~ReturnedBySomeRead(d, collection, path) /\ CountedWithout(d, collection, path)

\* C27: when deactivate_document(c, p) has completed the document is
\* returned by none of get_document, get_document_by_docid, list_documents,
\* list_all_documents, list_files, search_bm25, multi_get and the legacy
\* vector search and is not counted by count_documents, and it stays so
\* through every call that is not upsert_document(c, p).
C27_DeactivatedDocumentIsHidden ==
    [][\A c \in Colls, p \in Paths :
          /\ (last'.op = "deactivate_document" /\ last'.collection = c /\ last'.path = p) =>
                Hidden(db', c, p)
          /\ (/\ Hidden(db, c, p)
              /\ \E r \in db.documents : r.collection = c /\ r.path = p
              /\ ~(last'.op = "put_document" /\ last'.collection = c /\ last'.path = p)) =>
                Hidden(db', c, p)]_vars

\* a document is deactivated whose content another document, still active,
\* shares
C27_Witness ==
    /\ last.op = "deactivate_document"
    /\ \E r \in db.documents :
          /\ ~r.active
          /\ r.collection = last.collection /\ r.path = last.path
          /\ \E s \in db.documents : s.active /\ s.hash = r.hash
          /\ Hidden(db, r.collection, r.path)

====
